---------------------------- MODULE Spec2Model ----------------------------
(***************************************************************************)
(* Model of the preventify transcription relay.                            *)
(*                                                                         *)
(*   - the transcript hook (useTranscription) and the summarization        *)
(*     scheduler (useSummaries) of mobile/src/hooks;                       *)
(*   - the WebSocket relay proxy of the API server (wss.on('connection')); *)
(*   - the streaming client (DeepgramService) under useTranscription;      *)
(*   - the summarization endpoint of the API server (POST /summarize).     *)
(*                                                                         *)
(* Strings are TLA+ strings; the code's split / replace / trim are         *)
(* computed on them character by character.  Fragment texts hold no line   *)
(* terminators (the speech service sends single-line transcripts), so the  *)
(* '.' of the regular expression / \[interim\].*$/ matches every           *)
(* character of them.                                                      *)
(***************************************************************************)
EXTENDS Integers, Sequences, FiniteSets, TLC

VARIABLES
    \* ---- useTranscription (hooks/useTranscription.ts:8-72)
    transcript,         \* useState<string>('')
    isRecording,        \* useState<boolean>(false)
    \* ---- useSummaries (hooks/useTranscription.ts:85-174)
    currentSummary,     \* useState<string | null>(null)
    summaryHistory,     \* useState<SummaryItem[]>([])
    isLoading,          \* useState<boolean>(false)
    sumError,           \* useState<string | null>(null)
    intervalRef,        \* useRef: the interval and the transcript its closure holds
    lastTranscriptRef,  \* useRef<string>('')
    inFlight,           \* the pending SummaryService.generateSummary promises
    clock,              \* Date.now(), in milliseconds since the hook mounted
    \* ---- observation of the hooks (no counterpart in the code)
    lastOp,             \* the last hook operation and the transcript state before it
    lastFire,           \* the last scheduler fire and what it found
    lastSummarized,     \* the text of the last successful summarization, and
                        \* whether the recording had stopped when it completed
    nFragments,         \* fragments handled so far
    nIssued,            \* summarization requests issued so far
    finals,             \* the final fragments since the last clear, joined by spaces
    \* ---- relay proxy (api server, wss.on('connection'))
    apiKey,             \* DEEPGRAM_API_KEY is configured
    clientWs,           \* the inbound socket: readyState, who closed it, close code and reason
    deepgramWs,         \* the upstream socket: readyState, who closed it, close code
    toUpstream,         \* frames handed to deepgramWs.send, in order
    toClient,           \* frames handed to clientWs.send, in order
    reqUrl,             \* req.url of the inbound connection
    deepgramUrl,        \* the address the upstream socket is created with
    \* ---- observation of the proxy (no counterpart in the code)
    clientLog,          \* frames received from the client, with the upstream state
    upstreamLog,        \* frames received from upstream, with the client state
    \* ---- DeepgramService (services/DeepgramService.ts) and its environment
    svc,                \* the fields of the singleton: ws, isRecording, ...
    sockets,            \* the WebSocket each connectDeepgram call created
    calls,              \* the startTranscription calls: position, promise, timeout
    audio,              \* running setInterval timers, AudioRecord listeners and capture
    hookError,          \* useTranscription: useState<string | null>(null)
    \* ---- observation of the service (no counterpart in the code)
    delivered,          \* the transcript callback invocations, in order
    chunkLog,           \* the audio chunks produced, with the state that met them
    lastEvent,          \* the last service event
    stopRequested,      \* stopTranscription was called after the last start call
    nMessages,          \* socket messages handled so far
    \* ---- POST /summarize (api server) and the model it runs
    request,            \* the request being handled: position, text, maxSentences
    stdout,             \* what `docker model run` has written so far
    response,           \* the response sent: status and summary
    modelRuns,          \* executions of `docker model run` so far
    \* ---- observation of the endpoint (no counterpart in the code)
    lastLimit,          \* the last call of enforceSentenceLimit and its result
    \* ---- file transcription: App.handleTestMP3 and DeepgramService.transcribeFile
    fileCall,           \* the transcribeFile call: position and the callback before it
    fileTranscript,     \* App: useState<string>('')
    \* ---- POST /transcribe-file (api server)
    res,                \* the response object: headersSent, and what went on the wire
    fileWs,             \* the upstream socket of the request: readyState
    ffmpeg,             \* the decoder process
    job,                \* the closure of the request: transcript, isComplete, timers
    \* ---- observation of the endpoint (no counterpart in the code)
    fileLog             \* the upstream messages handled, with what they set

hookVars == <<transcript, isRecording, currentSummary, summaryHistory, isLoading,
              sumError, intervalRef, lastTranscriptRef, inFlight, clock,
              lastOp, lastFire, lastSummarized, nFragments, nIssued, finals>>

proxyVars == <<apiKey, clientWs, deepgramWs, toUpstream, toClient, reqUrl, deepgramUrl,
               clientLog, upstreamLog>>

schedulerVars == <<currentSummary, summaryHistory, isLoading, sumError, intervalRef,
                   lastTranscriptRef, inFlight, clock, lastOp, lastFire, lastSummarized,
                   nFragments, nIssued>>

serviceVars == <<svc, sockets, calls, audio, hookError,
                 delivered, chunkLog, lastEvent, stopRequested, nMessages>>

summarizerVars == <<request, stdout, response, modelRuns, lastLimit>>

fileClientVars == <<fileCall, fileTranscript>>

fileServerVars == <<res, fileWs, ffmpeg, job, fileLog>>

fileVars == <<fileClientVars, fileServerVars>>

vars == <<hookVars, proxyVars, serviceVars, summarizerVars, fileVars>>

-----------------------------------------------------------------------------
(* Bounds of the model *)

MaxFragments == 3
MaxRequests == 2
MaxFrames == 2
MaxStarts == 1
MaxMessages == 2
MaxChunks == 2
MaxSummaryLen == 7
MaxSentences == 2
MaxClock == 1

-----------------------------------------------------------------------------
(* String operations of the code *)

\* The separator both hooks look for.
InterimMarker == " [interim]"

\* String.prototype.indexOf, 1-based; 0 when pat does not occur in s.
IndexOf(s, pat) ==
    LET n == Len(s)
        m == Len(pat)
        hits == {i \in 1..(n - m + 1) : SubSeq(s, i, i + m - 1) = pat}
    IN  IF hits = {} THEN 0
        ELSE CHOOSE i \in hits : \A j \in hits : i <= j

\* prev.split(' [interim]')[0]
SplitFirst(s, pat) ==
    LET i == IndexOf(s, pat)
    IN  IF i = 0 THEN s ELSE SubSeq(s, 1, i - 1)

\* transcript.replace(/ \[interim\].*$/, ''): the leftmost marker and all that
\* follows it are removed.
StripInterim(s) ==
    LET i == IndexOf(s, InterimMarker)
    IN  IF i = 0 THEN s ELSE SubSeq(s, 1, i - 1)

\* The whitespace of \s and of String.prototype.trim that occurs in the texts.
Whitespace == {" ", "\t", "\n", "\r"}

RECURSIVE TrimStart(_)
TrimStart(s) ==
    IF s # "" /\ SubSeq(s, 1, 1) \in Whitespace THEN TrimStart(Tail(s)) ELSE s

RECURSIVE TrimEnd(_)
TrimEnd(s) ==
    IF s # "" /\ SubSeq(s, Len(s), Len(s)) \in Whitespace
    THEN TrimEnd(SubSeq(s, 1, Len(s) - 1))
    ELSE s

\* String.prototype.trim
Trim(s) == TrimEnd(TrimStart(s))

IsPrefix(p, s) == Len(p) <= Len(s) /\ SubSeq(s, 1, Len(p)) = p

-----------------------------------------------------------------------------
(* useTranscription: the transcript string *)

\* Texts a fragment can carry.  DeepgramService invokes the callback only
\* when transcript.trim() is not empty.
FragmentTexts == {"Hello", "Hello world", "so [interim] it"}

\* The texts of the scheduler's runs.
SchedulerTexts == {"Hello", "Hello world"}

\* The text of the runs that fill the summary history.
HistoryTexts == {"Hello"}

\* setTranscript updater of a final fragment.
FinalUpdate_Replace(prev, text) == text
FinalUpdate(prev, text) ==
    IF prev # "" THEN prev \o " " \o text ELSE text

\* setTranscript updater of an interim fragment.
InterimUpdate_Concat(prev, text) == prev \o InterimMarker \o " " \o text
InterimUpdate(prev, text) ==
    LET baseTranscript == SplitFirst(prev, InterimMarker)
    IN  baseTranscript \o InterimMarker \o " " \o text

\* The final fragments so far joined by single spaces, one more having come.
FinalsAfter(fin, text) == IF fin = "" THEN text ELSE fin \o " " \o text

\* The committed text: what useSummaries keeps of the transcript.
Committed(t) == StripInterim(t)

\* The pending interim text: what InterimUpdate wrote after the marker.
Pending(t) ==
    LET i == IndexOf(t, InterimMarker)
    IN  IF i = 0 THEN ""
        ELSE SubSeq(t, i + Len(InterimMarker) + 1, Len(t))


-----------------------------------------------------------------------------
(* useSummaries: the scheduler *)

\* Summaries the summarization service can answer with (an opaque model).
Summaries == {"S1", "S2"}

NoInterval == [armed |-> FALSE, transcript |-> ""]

\* What a scheduler fire found: what made the scheduler run (the start of the
\* recording, a change of the transcript, the timer), whether the committed
\* transcript was the text of the last successful summarization, whether it
\* issued a request, and then the text of the request and the final fragments
\* there were.
NoFire == [kind |-> "none", trigger |-> "none", unchanged |-> FALSE, issued |-> FALSE,
           text |-> "", finals |-> ""]

FireRecord(kind, trigger, tr, text, fin, issued) ==
    [kind |-> kind,
     trigger |-> trigger,
     unchanged |-> lastSummarized.has /\ Committed(tr) = lastSummarized.text,
     issued |-> issued,
     text |-> IF issued THEN text ELSE "",
     finals |-> IF issued THEN fin ELSE ""]

\* generateSummary's guard: if (!text || !text.trim()) return;
GenerateSummaryRuns(text) == text # "" /\ Trim(text) # ""

\* The immediate branch of the effect: the two conditions under which it
\* calls generateSummary.
ImmediateIssues(tr, ref) ==
    /\ tr # "" /\ tr # ref
    /\ Trim(StripInterim(tr)) # ""

\* The interval callback: the condition under which it calls generateSummary.
PeriodicIssues(tr, ref) ==
    /\ Trim(StripInterim(tr)) # ""
    /\ StripInterim(tr) # ref

\* The interval the effect leaves when nothing records: clearInterval, and
\* intervalRef.current = null.
StoppedInterval_Kept(ref) == ref
StoppedInterval(ref) == NoInterval

\* The effect of useSummaries, as React runs it after a render in which
\* transcript or isRecording changed (its dependency list): the previous
\* run's cleanup clears the interval, then the body runs on the new values tr
\* and rec.  A render that changes neither runs nothing.
SchedulerEffect(tr, rec, fin) ==
    IF tr = transcript /\ rec = isRecording
    THEN UNCHANGED <<intervalRef, lastTranscriptRef, inFlight, isLoading, sumError,
                     lastFire, nIssued>>
    ELSE IF ~rec
    THEN /\ intervalRef' = StoppedInterval(intervalRef)
         /\ UNCHANGED <<lastTranscriptRef, inFlight, isLoading, sumError,
                        lastFire, nIssued>>
    ELSE LET text == StripInterim(tr)
             issue == ImmediateIssues(tr, lastTranscriptRef)
             runs == issue /\ GenerateSummaryRuns(text)
         IN  /\ nIssued + (IF runs THEN 1 ELSE 0) <= MaxRequests
             /\ lastTranscriptRef' = IF issue THEN tr ELSE lastTranscriptRef
             /\ inFlight' = IF runs THEN Append(inFlight, text) ELSE inFlight
             /\ isLoading' = IF runs THEN TRUE ELSE isLoading
             /\ sumError' = IF runs THEN "null" ELSE sumError
             /\ nIssued' = nIssued + (IF runs THEN 1 ELSE 0)
             /\ intervalRef' = [armed |-> TRUE, transcript |-> tr]
             /\ lastFire' = FireRecord("immediate",
                                       IF isRecording THEN "transcript" ELSE "start",
                                       tr, text, fin, runs)

\* handleTranscriptMessage(message), and the render it causes.
HandleTranscriptMessage(text, isFinal) ==
    LET next == IF isFinal THEN FinalUpdate(transcript, text)
                ELSE InterimUpdate(transcript, text)
    IN  /\ nFragments < MaxFragments
        /\ nFragments' = nFragments + 1
        /\ transcript' = next
        /\ lastOp' = [kind |-> IF isFinal THEN "final" ELSE "interim",
                      text |-> text,
                      committedBefore |-> Committed(transcript),
                      runStart |-> IF lastOp.kind = "interim"
                                   THEN lastOp.runStart
                                   ELSE Committed(transcript),
                      run |-> IF lastOp.kind = "interim"
                              THEN lastOp.run + 1 ELSE 1]
        /\ finals' = IF isFinal THEN FinalsAfter(finals, text) ELSE finals
        /\ SchedulerEffect(next, isRecording, finals')
        /\ UNCHANGED <<isRecording, currentSummary, summaryHistory, lastSummarized>>
        /\ UNCHANGED <<proxyVars, serviceVars, summarizerVars, fileVars, clock>>

\* clearTranscript(), and the render it causes.
ClearTranscript ==
    /\ transcript' = ""
    /\ lastOp' = [kind |-> "clear", text |-> "",
                  committedBefore |-> Committed(transcript), runStart |-> "",
                  run |-> 0]
    /\ finals' = ""
    /\ SchedulerEffect("", isRecording, "")
    /\ UNCHANGED <<isRecording, currentSummary, summaryHistory, lastSummarized,
                   nFragments>>
    /\ UNCHANGED <<proxyVars, serviceVars, summarizerVars, fileVars, clock>>

\* useTranscription.startTranscription once DeepgramService.startTranscription
\* has resolved: setIsRecording(true), and the render it causes.
StartRecording ==
    /\ ~isRecording
    /\ isRecording' = TRUE
    /\ SchedulerEffect(transcript, TRUE, finals)
    /\ UNCHANGED <<transcript, finals, currentSummary, summaryHistory, lastSummarized,
                   lastOp, nFragments>>
    /\ UNCHANGED <<proxyVars, serviceVars, summarizerVars, fileVars, clock>>

\* useTranscription.stopTranscription (or a failed start): setIsRecording(false),
\* and the render it causes.
StopRecording ==
    /\ isRecording
    /\ isRecording' = FALSE
    /\ SchedulerEffect(transcript, FALSE, finals)
    /\ UNCHANGED <<transcript, finals, currentSummary, summaryHistory, lastSummarized,
                   lastOp, nFragments>>
    /\ UNCHANGED <<proxyVars, serviceVars, summarizerVars, fileVars, clock>>

\* The setInterval callback.  Its closure holds the transcript of the render
\* that armed it.
IntervalFire ==
    /\ intervalRef.armed
    /\ LET tr == intervalRef.transcript
           text == StripInterim(tr)
           issue == PeriodicIssues(tr, lastTranscriptRef)
           runs == issue /\ GenerateSummaryRuns(text)
       IN  /\ nIssued + (IF runs THEN 1 ELSE 0) <= MaxRequests
           /\ lastTranscriptRef' = IF issue THEN text ELSE lastTranscriptRef
           /\ inFlight' = IF runs THEN Append(inFlight, text) ELSE inFlight
           /\ isLoading' = IF runs THEN TRUE ELSE isLoading
           /\ sumError' = IF runs THEN "null" ELSE sumError
           /\ nIssued' = nIssued + (IF runs THEN 1 ELSE 0)
           /\ lastFire' = FireRecord("periodic", "timer", transcript, text, finals,
                                     runs)
    /\ UNCHANGED <<transcript, finals, isRecording, currentSummary, summaryHistory,
                   intervalRef, lastSummarized, lastOp, nFragments>>
    /\ UNCHANGED <<proxyVars, serviceVars, summarizerVars, fileVars, clock>>

\* newSummaryItem: { id: Date.now().toString(), summary: response.summary }
SummaryItem(now, summary) == [id |-> now, summary |-> summary]

\* setSummaryHistory((prev) => [newSummaryItem, ...prev])
PrependSummary_Append(item, prev) == Append(prev, item)
PrependSummary(item, prev) == <<item>> \o prev

RemoveAt(s, i) == SubSeq(s, 1, i - 1) \o SubSeq(s, i + 1, Len(s))

\* generateSummary after its await, the request having succeeded.
SummarySuccess ==
    \E i \in 1..Len(inFlight), summary \in Summaries :
        /\ currentSummary' = summary
        /\ summaryHistory' = PrependSummary(SummaryItem(clock, summary), summaryHistory)
        /\ lastTranscriptRef' = ""
        /\ isLoading' = FALSE
        /\ inFlight' = RemoveAt(inFlight, i)
        /\ lastSummarized' = [has |-> TRUE, text |-> inFlight[i],
                              stopped |-> ~isRecording]
        /\ UNCHANGED <<transcript, finals, isRecording, sumError, intervalRef,
                       lastOp, lastFire, nFragments, nIssued>>
        /\ UNCHANGED <<proxyVars, serviceVars, summarizerVars, fileVars, clock>>

SummaryFailure_DropsSummary ==
    \E i \in 1..Len(inFlight) :
        /\ sumError' = "Failed to generate summary"
        /\ isLoading' = FALSE
        /\ inFlight' = RemoveAt(inFlight, i)
        /\ currentSummary' = "null"
        /\ UNCHANGED <<transcript, finals, isRecording, summaryHistory,
                       intervalRef, lastTranscriptRef,
                       lastOp, lastFire, lastSummarized, nFragments, nIssued>>
        /\ UNCHANGED <<proxyVars, serviceVars, summarizerVars, fileVars, clock>>

\* generateSummary after its await, the request having failed.
SummaryFailure ==
    \E i \in 1..Len(inFlight) :
        /\ sumError' = "Failed to generate summary"
        /\ isLoading' = FALSE
        /\ inFlight' = RemoveAt(inFlight, i)
        /\ UNCHANGED <<transcript, finals, isRecording, currentSummary, summaryHistory,
                       intervalRef, lastTranscriptRef,
                       lastOp, lastFire, lastSummarized, nFragments, nIssued>>
        /\ UNCHANGED <<proxyVars, serviceVars, summarizerVars, fileVars, clock>>

\* clearSummaries()
ClearSummaries ==
    /\ currentSummary' = "null"
    /\ summaryHistory' = <<>>
    /\ lastTranscriptRef' = ""
    /\ lastSummarized' = [has |-> FALSE, text |-> "", stopped |-> FALSE]
    /\ UNCHANGED <<transcript, finals, isRecording, isLoading, sumError, intervalRef,
                   inFlight, lastOp, lastFire, nFragments, nIssued>>
    /\ UNCHANGED <<proxyVars, serviceVars, summarizerVars, fileVars, clock>>

\* A millisecond passes.
ClockTick ==
    /\ clock < MaxClock
    /\ clock' = clock + 1
    /\ UNCHANGED <<transcript, isRecording, currentSummary, summaryHistory, isLoading,
                   sumError, intervalRef, lastTranscriptRef, inFlight,
                   lastOp, lastFire, lastSummarized, nFragments, nIssued, finals>>
    /\ UNCHANGED <<proxyVars, serviceVars, summarizerVars, fileVars>>

InitHook ==
    /\ transcript = ""
    /\ clock = 0
    /\ isRecording = FALSE
    /\ currentSummary = "null"
    /\ summaryHistory = <<>>
    /\ isLoading = FALSE
    /\ sumError = "null"
    /\ intervalRef = NoInterval
    /\ lastTranscriptRef = ""
    /\ inFlight = <<>>
    /\ lastOp = [kind |-> "none", text |-> "", committedBefore |-> "", runStart |-> "",
                 run |-> 0]
    /\ lastFire = NoFire
    /\ lastSummarized = [has |-> FALSE, text |-> "", stopped |-> FALSE]
    /\ nFragments = 0
    /\ nIssued = 0
    /\ finals = ""

\* The transcript alone: fragments and clears, while nothing records.
NextTranscript ==
    \/ \E text \in FragmentTexts, isFinal \in BOOLEAN :
           HandleTranscriptMessage(text, isFinal)
    \/ ClearTranscript

NextHook ==
    \/ \E text \in SchedulerTexts, isFinal \in BOOLEAN :
           HandleTranscriptMessage(text, isFinal)
    \/ ClearTranscript
    \/ StartRecording
    \/ StopRecording
    \/ IntervalFire
    \/ SummarySuccess
    \/ SummaryFailure
    \/ ClearSummaries

\* The same with one fragment text: what the summary history goes through.
NextHistory ==
    \/ \E text \in HistoryTexts, isFinal \in BOOLEAN :
           HandleTranscriptMessage(text, isFinal)
    \/ ClearTranscript
    \/ StartRecording
    \/ StopRecording
    \/ IntervalFire
    \/ SummarySuccess
    \/ SummaryFailure
    \/ ClearSummaries

\* The same, the clock advancing: what the identifiers of the items go through.
NextClock == NextHistory \/ ClockTick

-----------------------------------------------------------------------------
(* The relay proxy: one inbound connection and its upstream socket.        *)
(* Connections share no state, so one connection is the whole model.       *)
(* The handlers take (data, isBinary): the 'message' event of ws 8, which  *)
(* hands every message over as a Buffer, text messages included.           *)

\* Frames the client can send: audio chunks and a JSON control message "{}".
ClientFrames ==
    { [binary |-> TRUE,  bytes |-> <<0, 255>>],
      [binary |-> TRUE,  bytes |-> <<7>>],
      [binary |-> FALSE, bytes |-> <<123, 125>>] }

\* Frames upstream can send: a JSON result "{}" and a binary acknowledgment.
UpstreamFrames ==
    { [binary |-> FALSE, bytes |-> <<123, 125>>],
      [binary |-> TRUE,  bytes |-> <<1>>] }

\* The representation in which ws hands a message to the listener.
WsDataKinds == {"Buffer"}

IsSpace(c) == c \in {9, 10, 11, 12, 13, 32}

RECURSIVE TrimBytes(_)
TrimBytes(b) ==
    IF b # <<>> /\ IsSpace(Head(b)) THEN TrimBytes(Tail(b))
    ELSE IF b # <<>> /\ IsSpace(b[Len(b)]) THEN TrimBytes(SubSeq(b, 1, Len(b) - 1))
    ELSE b

\* The value of a base64 character, 64 for every other character.
Unbase64(c) ==
    IF c >= 65 /\ c <= 90 THEN c - 65
    ELSE IF c >= 97 /\ c <= 122 THEN c - 71
    ELSE IF c >= 48 /\ c <= 57 THEN c + 4
    ELSE IF c = 43 \/ c = 45 THEN 62
    ELSE IF c = 47 \/ c = 95 THEN 63
    ELSE 64

\* The 6-bit values of the characters before the first '=', others skipped.
RECURSIVE Sextets(_)
Sextets(b) ==
    IF b = <<>> \/ Head(b) = 61 THEN <<>>
    ELSE IF Unbase64(Head(b)) < 64 THEN <<Unbase64(Head(b))>> \o Sextets(Tail(b))
    ELSE Sextets(Tail(b))

RECURSIVE BitsOf(_)
BitsOf(v) ==
    IF v = <<>> THEN <<>>
    ELSE [i \in 1..6 |-> (Head(v) \div (2 ^ (6 - i))) % 2] \o BitsOf(Tail(v))

RECURSIVE BytesOf(_)
BytesOf(bits) ==
    IF Len(bits) < 8 THEN <<>>
    ELSE << bits[1] * 128 + bits[2] * 64 + bits[3] * 32 + bits[4] * 16
            + bits[5] * 8 + bits[6] * 4 + bits[7] * 2 + bits[8] >>
         \o BytesOf(SubSeq(bits, 9, Len(bits)))

\* Buffer.from(data, 'base64')
Base64Decode(b) == BytesOf(BitsOf(Sextets(b)))

\* The frames clientWs.on('message') sends upstream for one message, the
\* upstream socket being open.
ForwardToUpstream_Twice(kind, isBinary, bytes) ==
    << [binary |-> TRUE, bytes |-> bytes], [binary |-> TRUE, bytes |-> bytes] >>
ForwardToUpstream(kind, isBinary, bytes) ==
    IF isBinary \/ kind = "Buffer"
    THEN << [binary |-> TRUE, bytes |-> bytes] >>
    ELSE IF kind = "string"
    THEN IF TrimBytes(bytes) # <<>> /\ Head(TrimBytes(bytes)) = 123
         THEN << [binary |-> FALSE, bytes |-> bytes] >>
         ELSE << [binary |-> TRUE, bytes |-> Base64Decode(bytes)] >>
    ELSE << [binary |-> TRUE, bytes |-> bytes] >>

\* if (deepgramWs.readyState === WebSocket.OPEN) { ... send ... }: the frames
\* are sent on an open socket and dropped otherwise; nothing is kept.
SendIfOpen_Always(ws, sent, frames) == sent \o frames
SendIfOpen(ws, sent, frames) ==
    IF ws.readyState = "OPEN" THEN sent \o frames ELSE sent

\* The frame deepgramWs.on('message') sends to the client for one message:
\* clientWs.send(data, { binary: isBinary }).
ForwardToClient_AlwaysBinary(isBinary, bytes) == [binary |-> TRUE, bytes |-> bytes]
ForwardToClient(isBinary, bytes) == [binary |-> isBinary, bytes |-> bytes]

\* The reasons the proxy gives when it closes the client.
MissingKeyReason == "Server configuration error: Missing API key"
UpstreamErrorReason == "Deepgram connection error"

\* if (clientWs.readyState === WebSocket.OPEN) clientWs.close(code, reason)
\* close() without a code sends an empty close frame: status 1005 at the peer.
CloseClientIfOpen(ws, code, reason) ==
    IF ws.readyState = "OPEN"
    THEN [readyState |-> "CLOSING", closedBy |-> "proxy", code |-> code,
          reason |-> reason]
    ELSE ws

\* deepgramWs.on('error'): close the client with 1011.
OnUpstreamError(ws) == CloseClientIfOpen(ws, 1011, UpstreamErrorReason)

\* The status codes of upstream's close frames: a normal closure, and an
\* internal error of the speech service.
UpstreamCloseCodes == {1000, 1011}

\* The codes the 'close' event of a ws socket can carry: the code of the close
\* frame received.  For a socket this side closed without a code that is 1005
\* when the peer answers with an empty close frame, and the status of the
\* peer's own close frame when it crosses this side's; 1006 when the socket
\* ends without a close frame.
CloseEventCodes(ws) ==
    IF ws.code # 0 THEN {ws.code}
    ELSE IF ws.readyState = "CLOSING" /\ ws.closedBy = "proxy"
    THEN {1005, 1006} \cup UpstreamCloseCodes
    ELSE {1006}

\* deepgramWs.on('close'): close the client.
OnUpstreamClose_Ignore(ws) == ws
OnUpstreamClose(ws) == CloseClientIfOpen(ws, 1005, "")

\* clientWs.on('close'): if (deepgramWs.readyState === WebSocket.OPEN) close it.
OnClientClose(ws) ==
    IF ws.readyState = "OPEN"
    THEN [ws EXCEPT !.readyState = "CLOSING", !.closedBy = "proxy"]
    ELSE ws

\* The session-open parameters, in the order of the upstream address, and
\* their defaults.
ParamNames ==
    << "encoding", "sample_rate", "channels", "model", "language", "punctuate",
       "interim_results" >>

ParamDefaults == << "linear16", "16000", "1", "nova-2", "en", "true", "true" >>

\* The percent escapes that occur in the addresses, and what they decode to.
PercentEscapes == << <<"%26", "&">>, <<"%3D", "=">>, <<"%20", " ">>, <<"%25", "%">> >>

\* Percent-decoding of a query component as URLSearchParams does it: '+' is
\* a space, an escape is its character.
RECURSIVE QueryDecode(_)
QueryDecode(t) ==
    IF t = "" THEN ""
    ELSE IF SubSeq(t, 1, 1) = "+" THEN " " \o QueryDecode(SubSeq(t, 2, Len(t)))
    ELSE LET hits == {i \in 1..Len(PercentEscapes) :
                          IsPrefix(PercentEscapes[i][1], t)}
         IN  IF hits # {}
             THEN PercentEscapes[CHOOSE i \in hits : TRUE][2]
                      \o QueryDecode(SubSeq(t, 4, Len(t)))
             ELSE SubSeq(t, 1, 1) \o QueryDecode(SubSeq(t, 2, Len(t)))

\* The text split at every occurrence of a separator.
RECURSIVE SplitAll(_, _)
SplitAll(t, sep) ==
    LET i == IndexOf(t, sep)
    IN  IF i = 0 THEN << t >>
        ELSE << SubSeq(t, 1, i - 1) >> \o SplitAll(SubSeq(t, i + Len(sep), Len(t)), sep)

\* The query of an address: what follows the first '?'.
QueryOf(url) ==
    LET i == IndexOf(url, "?")
    IN  IF i = 0 THEN "" ELSE SubSeq(url, i + 1, Len(url))

\* url.searchParams: the name=value pairs of the query, decoded; a pair
\* without '=' has the empty value, an empty pair is skipped.
SearchParams(url) ==
    LET pairs == SelectSeq(SplitAll(QueryOf(url), "&"), LAMBDA pair : pair # "")
    IN  [n \in 1..Len(pairs) |->
            LET i == IndexOf(pairs[n], "=")
            IN  IF i = 0
                THEN [name |-> QueryDecode(pairs[n]), value |-> ""]
                ELSE [name |-> QueryDecode(SubSeq(pairs[n], 1, i - 1)),
                      value |-> QueryDecode(SubSeq(pairs[n], i + 1, Len(pairs[n])))]]

\* searchParams.get(name): the value of the first pair of that name, if any.
SearchParamsGet(params, name) ==
    LET hits == {n \in 1..Len(params) : params[n].name = name}
    IN  IF hits = {} THEN [has |-> FALSE, value |-> ""]
        ELSE [has |-> TRUE,
              value |-> params[CHOOSE n \in hits : \A m \in hits : n <= m].value]

\* url.searchParams.get(name) || fallback
GetOr(params, name, fallback) ==
    LET v == SearchParamsGet(params, name)
    IN  IF ~v.has \/ v.value = "" THEN fallback ELSE v.value

\* The template literal of deepgramUrl: the values are written as they are.
RECURSIVE UrlQuery(_, _)
UrlQuery(params, n) ==
    IF n > Len(ParamNames) THEN ""
    ELSE (IF n = 1 THEN "" ELSE "&") \o ParamNames[n] \o "="
             \o GetOr(params, ParamNames[n], ParamDefaults[n])
             \o UrlQuery(params, n + 1)

DeepgramUrl(url) ==
    "wss://api.deepgram.com/v1/listen?" \o UrlQuery(SearchParams(url), 1)

\* The address the mobile client connects to.
ClientUrl ==
    "/ws/deepgram?encoding=linear16&sample_rate=16000&channels=1&model=nova-2"
        \o "&language=en&punctuate=true&interim_results=true"

\* What an inbound address can say of one parameter: nothing, a value, a
\* value with an escaped '&'.
ParamChoices(n) ==
    { "", ParamNames[n] \o "=v" \o ParamNames[n], ParamNames[n] \o "=a%26model%3Db" }

\* The queries made of one choice for each of the parameters from n on.
RECURSIVE QueriesFrom(_)
QueriesFrom(n) ==
    IF n > Len(ParamNames) THEN {""}
    ELSE { IF head = "" THEN rest
           ELSE IF rest = "" THEN head
           ELSE head \o "&" \o rest :
               head \in ParamChoices(n), rest \in QueriesFrom(n + 1) }

InboundUrls == { "/ws/deepgram?" \o q : q \in QueriesFrom(1) }

\* wss.on('connection'): without a key the client is closed with 1011 and
\* nothing else is set up; with one, the upstream socket starts connecting and
\* the handlers are registered.
Connection ==
    /\ clientWs.readyState = "NONE"
    /\ IF ~apiKey
       THEN /\ clientWs' = [readyState |-> "CLOSING", closedBy |-> "proxy",
                            code |-> 1011, reason |-> MissingKeyReason]
            /\ UNCHANGED deepgramWs
       ELSE /\ clientWs' = [readyState |-> "OPEN", closedBy |-> "none", code |-> 0,
                            reason |-> ""]
            /\ deepgramWs' = [readyState |-> "CONNECTING", closedBy |-> "none", code |-> 0]
    /\ deepgramUrl' = DeepgramUrl(reqUrl)
    /\ UNCHANGED <<apiKey, toUpstream, toClient, clientLog, upstreamLog>>
    /\ UNCHANGED <<hookVars, serviceVars, summarizerVars, fileVars, reqUrl>>

\* The handlers exist only on a connection that had a key.
HandlersRegistered == deepgramWs.readyState # "NONE"

\* A socket delivers messages while it is open, and while it waits for the
\* peer's answer to a close this side started.
Receiving(ws) ==
    \/ ws.readyState = "OPEN"
    \/ ws.readyState = "CLOSING" /\ ws.closedBy = "proxy"

\* clientWs.on('message')
ClientMessage ==
    \E frame \in ClientFrames, kind \in WsDataKinds :
        /\ HandlersRegistered
        /\ Receiving(clientWs)
        /\ Len(clientLog) < MaxFrames
        /\ clientLog' = Append(clientLog,
                               [frame |-> frame,
                                upOpen |-> deepgramWs.readyState = "OPEN"])
        /\ toUpstream' = SendIfOpen(deepgramWs, toUpstream,
                                    ForwardToUpstream(kind, frame.binary, frame.bytes))
        /\ UNCHANGED <<apiKey, clientWs, deepgramWs, toClient, upstreamLog>>
        /\ UNCHANGED <<hookVars, serviceVars, summarizerVars, fileVars, reqUrl, deepgramUrl>>

\* deepgramWs.on('message')
UpstreamMessage ==
    \E frame \in UpstreamFrames :
        /\ Receiving(deepgramWs)
        /\ Len(upstreamLog) < MaxFrames
        /\ upstreamLog' = Append(upstreamLog,
                                 [frame |-> frame,
                                  clientOpen |-> clientWs.readyState = "OPEN"])
        /\ toClient' = IF clientWs.readyState = "OPEN"
                       THEN Append(toClient, ForwardToClient(frame.binary, frame.bytes))
                       ELSE toClient
        /\ UNCHANGED <<apiKey, clientWs, deepgramWs, toUpstream, clientLog>>
        /\ UNCHANGED <<hookVars, serviceVars, summarizerVars, fileVars, reqUrl, deepgramUrl>>

\* deepgramWs.on('open'): the handshake succeeded; the handler only logs.
UpstreamOpen ==
    /\ deepgramWs.readyState = "CONNECTING"
    /\ deepgramWs' = [deepgramWs EXCEPT !.readyState = "OPEN"]
    /\ UNCHANGED <<apiKey, clientWs, toUpstream, toClient, clientLog, upstreamLog>>
    /\ UNCHANGED <<hookVars, serviceVars, summarizerVars, fileVars, reqUrl, deepgramUrl>>

\* deepgramWs.on('error'): a failed connect or authentication, or a failure of
\* the open socket.  ws leaves OPEN / CONNECTING before it emits 'error', and
\* emits 'close' afterwards.
UpstreamError ==
    /\ deepgramWs.readyState \in {"CONNECTING", "OPEN"}
    /\ deepgramWs' = [readyState |-> "CLOSING", closedBy |-> "error", code |-> 0]
    /\ clientWs' = OnUpstreamError(clientWs)
    /\ UNCHANGED <<apiKey, toUpstream, toClient, clientLog, upstreamLog>>
    /\ UNCHANGED <<hookVars, serviceVars, summarizerVars, fileVars, reqUrl, deepgramUrl>>

\* deepgramWs.on('close')
UpstreamClose ==
    /\ deepgramWs.readyState \in {"OPEN", "CLOSING"}
    /\ \E code \in CloseEventCodes(deepgramWs) :
           deepgramWs' = [readyState |-> "CLOSED",
                          closedBy |-> IF deepgramWs.closedBy = "none"
                                       THEN "peer" ELSE deepgramWs.closedBy,
                          code |-> code]
    /\ clientWs' = OnUpstreamClose(clientWs)
    /\ UNCHANGED <<apiKey, toUpstream, toClient, clientLog, upstreamLog>>
    /\ UNCHANGED <<hookVars, serviceVars, summarizerVars, fileVars, reqUrl, deepgramUrl>>

\* Upstream's close frame arrives, with its status code: ws answers it and
\* waits for the socket to end.  No handler of the proxy runs.
UpstreamCloseFrame ==
    /\ deepgramWs.readyState = "OPEN"
    /\ \E code \in UpstreamCloseCodes :
           deepgramWs' = [readyState |-> "CLOSING", closedBy |-> "peer", code |-> code]
    /\ UNCHANGED <<apiKey, clientWs, toUpstream, toClient, clientLog, upstreamLog>>
    /\ UNCHANGED <<hookVars, serviceVars, summarizerVars, fileVars, reqUrl, deepgramUrl>>

\* The client's close frame arrives: ws answers it and waits for the socket
\* to end.  No handler of the proxy runs.
ClientCloseFrame ==
    /\ clientWs.readyState = "OPEN"
    /\ clientWs' = [clientWs EXCEPT !.readyState = "CLOSING", !.closedBy = "peer"]
    /\ UNCHANGED <<apiKey, deepgramWs, toUpstream, toClient, clientLog, upstreamLog>>
    /\ UNCHANGED <<hookVars, serviceVars, summarizerVars, fileVars, reqUrl, deepgramUrl>>

\* clientWs.on('close'): the inbound socket has ended.
ClientClose ==
    /\ clientWs.readyState \in {"OPEN", "CLOSING"}
    /\ clientWs' = [clientWs EXCEPT !.readyState = "CLOSED",
                                    !.closedBy = IF clientWs.closedBy = "none"
                                                 THEN "peer" ELSE clientWs.closedBy]
    /\ deepgramWs' = IF HandlersRegistered THEN OnClientClose(deepgramWs) ELSE deepgramWs
    /\ UNCHANGED <<apiKey, toUpstream, toClient, clientLog, upstreamLog>>
    /\ UNCHANGED <<hookVars, serviceVars, summarizerVars, fileVars, reqUrl, deepgramUrl>>

InitProxyWith(urls) ==
    /\ apiKey \in BOOLEAN
    /\ reqUrl \in urls
    /\ deepgramUrl = ""
    /\ clientWs = [readyState |-> "NONE", closedBy |-> "none", code |-> 0,
                   reason |-> ""]
    /\ deepgramWs = [readyState |-> "NONE", closedBy |-> "none", code |-> 0]
    /\ toUpstream = <<>>
    /\ toClient = <<>>
    /\ clientLog = <<>>
    /\ upstreamLog = <<>>

InitProxy == InitProxyWith({ClientUrl})

\* The opening of a connection and of its upstream socket.
NextOpen ==
    \/ Connection
    \/ UpstreamOpen

NextProxy ==
    \/ Connection
    \/ ClientMessage
    \/ UpstreamMessage
    \/ UpstreamOpen
    \/ UpstreamError
    \/ UpstreamClose
    \/ UpstreamCloseFrame
    \/ ClientCloseFrame
    \/ ClientClose

-----------------------------------------------------------------------------
(* POST /summarize: one request, the model run it may start, and the       *)
(* response.  Requests share no state, so one request is the whole model.  *)
(* The model's output is built character by character, so that every text  *)
(* of up to MaxSummaryLen characters is a raw summary.                     *)

\* The characters of the model's output: a letter, two sentence terminators
\* and the space.
SummaryChars == {"a", ".", "?", " "}

Terminators == {".", "!", "?"}

CharAt(s, i) == SubSeq(s, i, i)

\* The last index of the run of characters of `set` that starts at i; i - 1
\* when there is none.
RECURSIVE RunEnd(_, _, _)
RunEnd(s, i, set) ==
    IF i <= Len(s) /\ CharAt(s, i) \in set THEN RunEnd(s, i + 1, set) ELSE i - 1

\* text.split(/[.!?]+\s+/): a separator is a run of terminators followed by
\* a run of whitespace; `start` is where the current piece began, i where
\* the search for the next separator is.
RECURSIVE SplitFrom(_, _, _)
SplitFrom(s, start, i) ==
    IF i > Len(s) THEN << SubSeq(s, start, Len(s)) >>
    ELSE IF CharAt(s, i) \notin Terminators THEN SplitFrom(s, start, i + 1)
    ELSE LET q == RunEnd(s, i, Terminators)
             r == RunEnd(s, q + 1, Whitespace)
         IN  IF r > q
             THEN << SubSeq(s, start, i - 1) >> \o SplitFrom(s, r + 1, r + 1)
             ELSE SplitFrom(s, start, q + 1)

\* text.split(/[.!?]+\s+/).filter(s => s.trim())
SplitSentences(text) ==
    SelectSeq(SplitFrom(text, 1, 1), LAMBDA piece : Trim(piece) # "")

\* sentences.slice(0, maxSentences); a negative end counts from the end.
Truncate_OneMore(sentences, maxSentences) ==
    SubSeq(sentences, 1, IF maxSentences + 1 < Len(sentences)
                         THEN maxSentences + 1 ELSE Len(sentences))
Truncate(sentences, maxSentences) ==
    IF maxSentences < 0
    THEN SubSeq(sentences, 1, Len(sentences) + maxSentences)
    ELSE SubSeq(sentences, 1, IF maxSentences < Len(sentences)
                              THEN maxSentences ELSE Len(sentences))

\* truncated.join('. ')
RECURSIVE Join(_, _)
Join(pieces, sep) ==
    IF pieces = <<>> THEN ""
    ELSE IF Len(pieces) = 1 THEN pieces[1]
    ELSE pieces[1] \o sep \o Join(Tail(pieces), sep)

\* result.match(/[.!?]$/)
EndsWithTerminator(text) ==
    text # "" /\ CharAt(text, Len(text)) \in Terminators

\* enforceSentenceLimit(text, maxSentences)
EnforceSentenceLimit(text, maxSentences) ==
    IF text = "" THEN ""
    ELSE LET sentences == SplitSentences(text)
         IN  IF Len(sentences) <= maxSentences THEN text
             ELSE LET result == Join(Truncate(sentences, maxSentences), ". ")
                  IN  IF ~EndsWithTerminator(result) THEN result \o "." ELSE result

\* const { text, maxSentences = 3 } = req.body
DefaultMaxSentences == 3

\* The bodies of the requests: text is a string (empty, blank, or with words)
\* or no string; maxSentences is a positive number or absent.
RequestBodies ==
    [isString : {TRUE}, text : {"", " ", "Hello"}, hasMax : {TRUE},
     maxSentences : 1..MaxSentences]
    \cup {[isString |-> FALSE, text |-> "", hasMax |-> FALSE, maxSentences |-> 0],
          [isString |-> TRUE, text |-> "Hello", hasMax |-> FALSE, maxSentences |-> 0]}

NoResponse == [status |-> 0, summary |-> "", error |-> ""]

\* app.post('/summarize') up to the await of the model run: a body without a
\* text, or whose text is no string, is answered with 400; summarizeText
\* returns '' for a blank text, and runs the model for any other.
PostSummarize(body) ==
    /\ request.pc = "idle"
    /\ LET maxSentences == IF body.hasMax THEN body.maxSentences
                           ELSE DefaultMaxSentences
           req == [pc |-> "done", isString |-> body.isString, text |-> body.text,
                   maxSentences |-> maxSentences]
       IN  IF ~body.isString \/ body.text = ""
           THEN /\ request' = req
                /\ response' = [status |-> 400, summary |-> "",
                                error |-> "Invalid request"]
                /\ UNCHANGED modelRuns
           ELSE IF Trim(body.text) = ""
           THEN /\ request' = req
                /\ response' = [status |-> 200, summary |-> "", error |-> ""]
                /\ UNCHANGED modelRuns
           ELSE /\ request' = [req EXCEPT !.pc = "running"]
                /\ modelRuns' = modelRuns + 1
                /\ UNCHANGED response
    /\ UNCHANGED <<stdout, lastLimit>>
    /\ UNCHANGED <<hookVars, proxyVars, serviceVars, fileVars>>

\* The model writes a character of its answer.
ModelWrites(c) ==
    /\ request.pc = "running"
    /\ Len(stdout) < MaxSummaryLen
    /\ stdout' = stdout \o c
    /\ UNCHANGED <<request, response, modelRuns, lastLimit>>
    /\ UNCHANGED <<hookVars, proxyVars, serviceVars, fileVars>>

\* The model run ends: summarizeText trims its output and enforces the
\* sentence limit, and the handler answers with the summary.
ModelExits ==
    /\ request.pc = "running"
    /\ LET summary == Trim(stdout)
           limited == EnforceSentenceLimit(summary, request.maxSentences)
       IN  /\ lastLimit' = [has |-> TRUE, text |-> summary,
                            maxSentences |-> request.maxSentences,
                            result |-> limited]
           /\ response' = [status |-> 200, summary |-> limited, error |-> ""]
    /\ request' = [request EXCEPT !.pc = "done"]
    /\ UNCHANGED <<stdout, modelRuns>>
    /\ UNCHANGED <<hookVars, proxyVars, serviceVars, fileVars>>

\* The model run fails or exceeds its 30 s: summarizeText throws, and the
\* handler answers with 500.
ModelFails ==
    /\ request.pc = "running"
    /\ request' = [request EXCEPT !.pc = "done"]
    /\ response' = [status |-> 500, summary |-> "",
                    error |-> "Failed to generate summary"]
    /\ UNCHANGED <<stdout, modelRuns, lastLimit>>
    /\ UNCHANGED <<hookVars, proxyVars, serviceVars, fileVars>>

InitSummarizer ==
    /\ request = [pc |-> "idle", isString |-> FALSE, text |-> "", maxSentences |-> 0]
    /\ stdout = ""
    /\ response = NoResponse
    /\ modelRuns = 0
    /\ lastLimit = [has |-> FALSE, text |-> "", maxSentences |-> 0, result |-> ""]

NextSummarize ==
    \/ \E body \in RequestBodies : PostSummarize(body)
    \/ \E c \in SummaryChars : ModelWrites(c)
    \/ ModelExits
    \/ ModelFails

-----------------------------------------------------------------------------
(* The streaming client: the DeepgramService singleton, the sockets its    *)
(* connectDeepgram calls create, and useTranscription's start and stop on  *)
(* top of it.  A startTranscription call is a process: it waits for the    *)
(* permission, then for its connect promise; what follows a settled        *)
(* promise runs as microtasks, before any other event, and is part of the  *)
(* action that settles it.  The sockets are React Native WebSockets:       *)
(* close() moves an unclosed socket to CLOSING, a failure dispatches       *)
(* 'error' and then 'close', and messages are dispatched until the socket  *)
(* has closed.                                                             *)

\* The start calls of a behaviour, and the sockets they create.  SpecService
\* makes MaxStarts of them, SpecRestart one more.
Calls == 1..(MaxStarts + 1)

\* this.ws = null
NoSocket == 0

\* A message of a socket: event.data is an ArrayBuffer or a string (wire);
\* json says that its text is a JSON object, whose fields follow: type,
\* transcript (for Results, channel.alternatives[0].transcript), event,
\* end_of_turn_confidence in hundredths (-1 when absent) and is_final
\* ("undefined" when absent).
Frame(wire, json, type, hasTranscript, text, event, confidence, is_final) ==
    [wire |-> wire, json |-> json, type |-> type, hasTranscript |-> hasTranscript,
     transcript |-> text, event |-> event, confidence |-> confidence,
     is_final |-> is_final]

\* Messages of the proxy: a binary acknowledgment, an interim and a final turn.
ServiceFrames ==
    { Frame("ArrayBuffer", FALSE, "", FALSE, "", "", -1, "undefined"),
      Frame("string", TRUE, "TurnInfo", TRUE, "Hello", "Update", 30, "undefined"),
      Frame("string", TRUE, "TurnInfo", TRUE, "Hello world", "EndOfTurn", -1,
            "undefined") }

\* Every kind of message: binary ones (an acknowledgment, and one whose bytes
\* spell a final turn), a text that is no JSON object, a JSON object of a type
\* the service does not know, a Connected message, turns of each event at
\* confidences around 0.5, and legacy results.
SessionFrames ==
    { Frame("ArrayBuffer", FALSE, "", FALSE, "", "", -1, "undefined"),
      Frame("ArrayBuffer", TRUE, "TurnInfo", TRUE, "Hello", "EndOfTurn", -1,
            "undefined"),
      Frame("string", FALSE, "", FALSE, "", "", -1, "undefined"),
      Frame("string", TRUE, "Metadata", TRUE, "Hello", "", -1, "undefined"),
      Frame("string", TRUE, "Connected", FALSE, "", "", -1, "undefined"),
      Frame("string", TRUE, "TurnInfo", TRUE, "Hello", "EndOfTurn", -1, "undefined"),
      Frame("string", TRUE, "TurnInfo", TRUE, "Hello", "Update", 51, "undefined"),
      Frame("string", TRUE, "TurnInfo", TRUE, "Hello", "Update", 50, "undefined"),
      Frame("string", TRUE, "TurnInfo", TRUE, "Hello", "Update", -1, "undefined"),
      Frame("string", TRUE, "TurnInfo", TRUE, "Hello", "StartOfTurn", 90,
            "undefined"),
      Frame("string", TRUE, "Results", TRUE, "Hello", "", -1, "true"),
      Frame("string", TRUE, "Results", TRUE, "Hello", "", -1, "false"),
      Frame("string", TRUE, "Results", TRUE, "Hello", "", -1, "undefined") }

\* The close codes with which the proxy ends an open socket.
RemoteCloseCodes == {1000, 1011}

\* AudioRecord.init / AudioRecord.start succeed or throw.
MicOutcomes == {"ok", "initFails", "startFails"}

\* data.event === 'EndOfTurn' ||
\*     (data.event === 'Update' && data.end_of_turn_confidence > 0.5);
\* an absent confidence compares false.
IsFinalTurn_AnyUpdate(data) == data.event \in {"EndOfTurn", "Update"}
IsFinalTurn(data) ==
    \/ data.event = "EndOfTurn"
    \/ data.event = "Update" /\ data.confidence # -1 /\ data.confidence > 50

\* data.is_final || false
IsFinalResult(data) ==
    IF data.is_final = "undefined" THEN FALSE ELSE data.is_final = "true"

\* handleDeepgramMessage(data): the message it hands to the transcript
\* callback, if any.
HandleDeepgramMessage(data) ==
    IF data.type = "TurnInfo"
    THEN IF data.hasTranscript /\ Trim(data.transcript) # ""
         THEN << [transcript |-> data.transcript, isFinal |-> IsFinalTurn(data)] >>
         ELSE <<>>
    ELSE IF data.type = "Results"
    THEN IF data.hasTranscript /\ data.transcript # "" /\ Trim(data.transcript) # ""
         THEN << [transcript |-> data.transcript, isFinal |-> IsFinalResult(data)] >>
         ELSE <<>>
    ELSE <<>>

\* ws.onmessage: binary messages and texts that are no JSON object are
\* dropped, the others are parsed and handled.
OnMessage_ParsesBinary(frame) ==
    IF frame.json THEN HandleDeepgramMessage(frame) ELSE <<>>
OnMessage(frame) ==
    IF frame.wire \in {"ArrayBuffer", "Blob"} THEN <<>>
    ELSE IF ~frame.json THEN <<>>
    ELSE HandleDeepgramMessage(frame)

\* The service, its sockets and the audio sources, as one value.
World == [svc |-> svc, sockets |-> sockets, audio |-> audio]

\* ws.close(...): React Native ignores it on a socket that is closing or closed.
CloseSocket(socks, s, by, code) ==
    [socks EXCEPT ![s] =
        [@ EXCEPT !.readyState = IF @ \in {"CLOSING", "CLOSED"} THEN @ ELSE "CLOSING",
                  !.closeCalls = Append(@, [by |-> by, code |-> code])]]

\* stopTranscription()
StopTranscription_NoCode(w) ==
    IF ~w.svc.isRecording THEN w
    ELSE [svc |-> [w.svc EXCEPT
                      !.isRecording = FALSE,
                      !.testAudioInterval = IF w.svc.useTestAudio THEN FALSE ELSE @,
                      !.audioRecordInitialized = IF w.svc.useTestAudio THEN @ ELSE FALSE,
                      !.ws = NoSocket,
                      !.transcriptCallback = "null"],
          sockets |-> IF w.svc.ws # NoSocket
                      THEN CloseSocket(w.sockets, w.svc.ws, "stop", 0)
                      ELSE w.sockets,
          audio |-> IF w.svc.useTestAudio
                    THEN [w.audio EXCEPT !.intervals =
                             IF w.svc.testAudioInterval THEN @ - 1 ELSE @]
                    ELSE [w.audio EXCEPT !.capturing =
                             IF w.svc.audioRecordInitialized THEN FALSE ELSE @]]
StopTranscription(w) ==
    IF ~w.svc.isRecording THEN w
    ELSE [svc |-> [w.svc EXCEPT
                      !.isRecording = FALSE,
                      !.testAudioInterval = IF w.svc.useTestAudio THEN FALSE ELSE @,
                      !.audioRecordInitialized = IF w.svc.useTestAudio THEN @ ELSE FALSE,
                      !.ws = NoSocket,
                      !.transcriptCallback = "null"],
          sockets |-> IF w.svc.ws # NoSocket
                      THEN CloseSocket(w.sockets, w.svc.ws, "stop", 1000)
                      ELSE w.sockets,
          audio |-> IF w.svc.useTestAudio
                    THEN [w.audio EXCEPT !.intervals =
                             IF w.svc.testAudioInterval THEN @ - 1 ELSE @]
                    ELSE [w.audio EXCEPT !.capturing =
                             IF w.svc.audioRecordInitialized THEN FALSE ELSE @]]

\* The condition of test audio (205), of the AudioRecord listener (278, 283)
\* and of sendAudioData (419): a socket, open, and the service recording.
SocketReady_IgnoresRecording(w) ==
    /\ w.svc.ws # NoSocket
    /\ w.sockets[w.svc.ws].readyState = "OPEN"
SocketReady(w) ==
    /\ w.svc.ws # NoSocket
    /\ w.sockets[w.svc.ws].readyState = "OPEN"
    /\ w.svc.isRecording

Event(kind) == [kind |-> kind, abnormal |-> FALSE, session |-> FALSE, repeat |-> FALSE]

Apply(w) ==
    /\ svc' = w.svc
    /\ sockets' = w.sockets
    /\ audio' = w.audio

\* The transcript App gives to useSummaries: liveTranscript || fileTranscript.
AppTranscript(live, file) == IF live # "" THEN live ELSE file

\* The effect of useSummaries under App, after a render in which the
\* transcript App gives it or isRecording changed: as SchedulerEffect, the
\* transcript being liveTranscript || fileTranscript.
AppEffect(tr, rec, fin) ==
    IF tr = AppTranscript(transcript, fileTranscript) /\ rec = isRecording
    THEN UNCHANGED <<intervalRef, lastTranscriptRef, inFlight, isLoading, sumError,
                     lastFire, nIssued>>
    ELSE IF ~rec
    THEN /\ intervalRef' = StoppedInterval(intervalRef)
         /\ UNCHANGED <<lastTranscriptRef, inFlight, isLoading, sumError,
                        lastFire, nIssued>>
    ELSE LET text == StripInterim(tr)
             issue == ImmediateIssues(tr, lastTranscriptRef)
             runs == issue /\ GenerateSummaryRuns(text)
         IN  /\ nIssued + (IF runs THEN 1 ELSE 0) <= MaxRequests
             /\ lastTranscriptRef' = IF issue THEN tr ELSE lastTranscriptRef
             /\ inFlight' = IF runs THEN Append(inFlight, text) ELSE inFlight
             /\ isLoading' = IF runs THEN TRUE ELSE isLoading
             /\ sumError' = IF runs THEN "null" ELSE sumError
             /\ nIssued' = nIssued + (IF runs THEN 1 ELSE 0)
             /\ intervalRef' = [armed |-> TRUE, transcript |-> tr]
             /\ lastFire' = FireRecord("immediate",
                                       IF isRecording THEN "transcript" ELSE "start",
                                       tr, text, fin, runs)

\* What a step of useTranscription or of the App does to useSummaries: under
\* App (`app`) the render it causes runs the effect on the new transcripts and
\* recording flag; with useTranscription alone there is no useSummaries.
AppRender(app) ==
    IF app
    THEN /\ AppEffect(AppTranscript(transcript', fileTranscript'), isRecording',
                      finals')
         /\ UNCHANGED <<currentSummary, summaryHistory, clock, lastOp,
                        lastSummarized, nFragments>>
    ELSE UNCHANGED schedulerVars

\* The catch of startTranscription and the catch of the hook around it:
\* stopTranscription(), then setError(message) and setIsRecording(false).
StartFails(k, w, call, message) ==
    /\ Apply(StopTranscription(w))
    /\ calls' = [calls EXCEPT ![k] = [call EXCEPT !.pc = "failed"]]
    /\ hookError' = message
    /\ isRecording' = FALSE

\* startTranscription after connectDeepgram has resolved, up to the hook's
\* setIsRecording(true).
StartContinues(k, w, call, mic) ==
    LET test == call.useTestAudio
        svc1 == [w.svc EXCEPT !.transcriptCallback = "hook", !.useTestAudio = test]
        svc2 == [svc1 EXCEPT !.audioRecordInitialized = TRUE]
        listening == [w.audio EXCEPT !.listeners = @ + 1]
    IN  IF test
        THEN /\ mic = "ok"
             /\ Apply([w EXCEPT !.svc = [svc1 EXCEPT !.testAudioInterval = TRUE,
                                                     !.isRecording = TRUE],
                                !.audio = [w.audio EXCEPT !.intervals = @ + 1]])
             /\ calls' = [calls EXCEPT ![k] = [call EXCEPT !.pc = "done"]]
             /\ isRecording' = TRUE
             /\ UNCHANGED hookError
        ELSE IF mic = "initFails"
        THEN /\ ~svc1.audioRecordInitialized
             /\ StartFails(k, [w EXCEPT !.svc = svc1], call, "Microphone capture failed")
        ELSE IF mic = "startFails"
        THEN StartFails(k, [w EXCEPT !.svc = svc2, !.audio = listening], call,
                        "Microphone capture failed")
        ELSE /\ Apply([w EXCEPT !.svc = [svc2 EXCEPT !.isRecording = TRUE],
                                !.audio = [listening EXCEPT !.capturing = TRUE]])
             /\ calls' = [calls EXCEPT ![k] = [call EXCEPT !.pc = "done"]]
             /\ isRecording' = TRUE
             /\ UNCHANGED hookError

\* useTranscription.startTranscription(useTestAudio) up to the first await of
\* DeepgramService.startTranscription; a service that records returns at once.
HookStartTranscription(test, limit, app) ==
    \E k \in 1..limit :
        /\ calls[k].pc = "idle"
        /\ \A j \in 1..(k - 1) : calls[j].pc # "idle"
        /\ hookError' = "null"
        /\ IF svc.isRecording
           THEN /\ calls' = [calls EXCEPT ![k].pc = "done"]
                /\ isRecording' = TRUE
           ELSE /\ calls' = [calls EXCEPT ![k].pc = "permission",
                                          ![k].useTestAudio = test]
                /\ UNCHANGED isRecording
        /\ stopRequested' = FALSE
        /\ lastEvent' = Event("start")
        /\ UNCHANGED <<svc, sockets, audio, delivered, chunkLog, nMessages,
                       transcript, finals>>
        /\ UNCHANGED <<proxyVars, summarizerVars, fileVars>>
        /\ AppRender(app)

\* requestPermissions() has settled: the call throws, or connectDeepgram()
\* creates the socket, sets this.ws and arms the timeout.
PermissionResult(k, granted, app) ==
    /\ calls[k].pc = "permission"
    /\ IF ~granted /\ ~calls[k].useTestAudio
       THEN StartFails(k, World, calls[k], "Microphone permission denied")
       ELSE /\ svc' = [svc EXCEPT !.ws = k]
            /\ sockets' = [sockets EXCEPT ![k].readyState = "CONNECTING"]
            /\ calls' = [calls EXCEPT ![k].pc = "connect",
                                      ![k].promise = "pending",
                                      ![k].timeout = TRUE]
            /\ UNCHANGED <<audio, hookError, isRecording>>
    /\ lastEvent' = Event("other")
    /\ UNCHANGED <<delivered, chunkLog, stopRequested, nMessages, transcript, finals>>
    /\ UNCHANGED <<proxyVars, summarizerVars, fileVars>>
    /\ AppRender(app)

\* ws.onopen: clearTimeout, resolve; the call goes on if its promise was pending.
SocketOpen(k, mic, app) ==
    /\ sockets[k].readyState = "CONNECTING"
    /\ LET w == [World EXCEPT !.sockets[k].readyState = "OPEN"]
           call == [calls[k] EXCEPT !.timeout = FALSE,
                                    !.promise = IF @ = "pending" THEN "resolved" ELSE @]
       IN  IF calls[k].promise = "pending"
           THEN StartContinues(k, w, call, mic)
           ELSE /\ mic = "ok"
                /\ Apply(w)
                /\ calls' = [calls EXCEPT ![k] = call]
                /\ UNCHANGED <<hookError, isRecording>>
    /\ lastEvent' = Event("other")
    /\ UNCHANGED <<delivered, chunkLog, stopRequested, nMessages, transcript, finals>>
    /\ UNCHANGED <<proxyVars, summarizerVars, fileVars>>
    /\ AppRender(app)

\* The socket fails: ws.onerror (clearTimeout, reject) and then ws.onclose
\* with an abnormal code (this.ws = null); the catch runs after both.
SocketError(k, app) ==
    /\ sockets[k].readyState \in {"CONNECTING", "OPEN", "CLOSING"}
    /\ LET w == [World EXCEPT !.sockets[k].readyState = "CLOSED",
                              !.svc.ws = NoSocket]
           call == [calls[k] EXCEPT !.timeout = FALSE,
                                    !.promise = IF @ = "pending" THEN "rejected" ELSE @]
       IN  IF calls[k].promise = "pending"
           THEN StartFails(k, w, call, "WebSocket connection failed")
           ELSE /\ Apply(w)
                /\ calls' = [calls EXCEPT ![k] = call]
                /\ UNCHANGED <<hookError, isRecording>>
    /\ lastEvent' = [kind |-> "socketEnded", abnormal |-> TRUE,
                     session |-> svc.ws = k /\ svc.isRecording, repeat |-> FALSE]
    /\ UNCHANGED <<delivered, chunkLog, stopRequested, nMessages, transcript, finals>>
    /\ UNCHANGED <<proxyVars, summarizerVars, fileVars>>
    /\ AppRender(app)

\* ws.onclose(code): clearTimeout, this.ws = null, and reject unless the code
\* is 1000 or 1001.  An open socket is closed by the peer; a closing one ends
\* with the normal code of the close() that started it.
SocketClose(k, code, app) ==
    /\ \/ sockets[k].readyState = "OPEN" /\ code \in RemoteCloseCodes
       \/ sockets[k].readyState = "CLOSING" /\ code = 1000
    /\ LET w == [World EXCEPT !.sockets[k].readyState = "CLOSED",
                              !.svc.ws = NoSocket]
           rejects == code \notin {1000, 1001} /\ calls[k].promise = "pending"
           call == [calls[k] EXCEPT !.timeout = FALSE,
                                    !.promise = IF rejects THEN "rejected" ELSE @]
       IN  IF rejects
           THEN StartFails(k, w, call, "WebSocket closed")
           ELSE /\ Apply(w)
                /\ calls' = [calls EXCEPT ![k] = call]
                /\ UNCHANGED <<hookError, isRecording>>
    /\ lastEvent' = [kind |-> "socketEnded",
                     abnormal |-> code \notin {1000, 1001},
                     session |-> svc.ws = k /\ svc.isRecording, repeat |-> FALSE]
    /\ UNCHANGED <<delivered, chunkLog, stopRequested, nMessages, transcript, finals>>
    /\ UNCHANGED <<proxyVars, summarizerVars, fileVars>>
    /\ AppRender(app)

\* The connect timeout of call k fires: if this.ws is set and not open, it is
\* closed and the promise of call k is rejected.
ConnectTimeout(k, app) ==
    /\ calls[k].timeout
    /\ LET call == [calls[k] EXCEPT !.timeout = FALSE]
       IN  IF svc.ws # NoSocket /\ sockets[svc.ws].readyState # "OPEN"
           THEN StartFails(k,
                           [World EXCEPT !.sockets =
                               CloseSocket(sockets, svc.ws, "timeout", 0)],
                           [call EXCEPT !.promise = "rejected"],
                           "Connection timeout")
           ELSE /\ calls' = [calls EXCEPT ![k] = call]
                /\ UNCHANGED <<svc, sockets, audio, hookError, isRecording>>
    /\ lastEvent' = Event("other")
    /\ UNCHANGED <<delivered, chunkLog, stopRequested, nMessages, transcript, finals>>
    /\ UNCHANGED <<proxyVars, summarizerVars, fileVars>>
    /\ AppRender(app)

\* A socket has a close() call of stopTranscription behind it.
StoppedSocket(sock) ==
    \E i \in 1..Len(sock.closeCalls) : sock.closeCalls[i].by = "stop"

\* App.handleTranscriptMessage, and the callback handleTestMP3 gives to
\* transcribeFile around it: a final message with a text replaces the file
\* transcript, any other message is dropped.
HandleFileMessage(prev, message) ==
    IF message.isFinal /\ message.transcript # "" THEN message.transcript ELSE prev
FileCallback(prev, message) ==
    IF message.isFinal /\ message.transcript # ""
    THEN HandleFileMessage(prev, message)
    ELSE prev

\* ws.onmessage of socket k, and the callback the service holds when it is
\* invoked: the hook's handleTranscriptMessage, or the callback of
\* handleTestMP3.
SocketMessage(k, frame, app) ==
    /\ sockets[k].readyState \in {"OPEN", "CLOSING"}
    /\ nMessages < MaxMessages
    /\ nMessages' = nMessages + 1
    /\ LET msgs == OnMessage(frame)
           invocation == [socket |-> k,
                          afterStop |-> StoppedSocket(sockets[k]),
                          frame |-> frame,
                          message |-> msgs[1],
                          to |-> svc.transcriptCallback]
       IN  IF msgs # <<>> /\ svc.transcriptCallback = "hook"
           THEN /\ transcript' = IF msgs[1].isFinal
                                 THEN FinalUpdate(transcript, msgs[1].transcript)
                                 ELSE InterimUpdate(transcript, msgs[1].transcript)
                /\ finals' = IF msgs[1].isFinal
                             THEN FinalsAfter(finals, msgs[1].transcript)
                             ELSE finals
                /\ delivered' = Append(delivered, invocation)
                /\ UNCHANGED fileTranscript
           ELSE IF msgs # <<>> /\ svc.transcriptCallback = "file"
           THEN /\ fileTranscript' = FileCallback(fileTranscript, msgs[1])
                /\ delivered' = Append(delivered, invocation)
                /\ UNCHANGED <<transcript, finals>>
           ELSE UNCHANGED <<transcript, finals, delivered, fileTranscript>>
    /\ lastEvent' = Event("other")
    /\ UNCHANGED <<svc, sockets, calls, audio, hookError, chunkLog, stopRequested,
                   isRecording>>
    /\ UNCHANGED <<proxyVars, summarizerVars, fileCall, fileServerVars>>
    /\ AppRender(app)

\* useTranscription.stopTranscription(): DeepgramService.stopTranscription()
\* and setIsRecording(false).
HookStopTranscription(app) ==
    /\ Apply(StopTranscription(World))
    /\ isRecording' = FALSE
    /\ stopRequested' = TRUE
    /\ lastEvent' = [kind |-> "stop", abnormal |-> FALSE, session |-> svc.isRecording,
                     repeat |-> lastEvent.kind = "stop"]
    /\ UNCHANGED <<calls, hookError, delivered, chunkLog, nMessages, transcript, finals>>
    /\ UNCHANGED <<proxyVars, summarizerVars, fileVars>>
    /\ AppRender(app)

\* The chunks ws.send gets when a source produces one chunk that `copies`
\* handlers receive: the source's own check, then sendAudioData's.
ChunkSent_Unchecked(w, copies) == copies
ChunkSent(w, copies) == IF SocketReady(w) /\ SocketReady(w) THEN copies ELSE 0

AudioChunk(copies) ==
    /\ Len(chunkLog) < MaxChunks
    /\ chunkLog' = Append(chunkLog,
                          [open |-> svc.ws # NoSocket
                                    /\ sockets[svc.ws].readyState = "OPEN",
                           recording |-> svc.isRecording,
                           sent |-> ChunkSent(World, copies)])
    /\ sockets' = IF ChunkSent(World, copies) > 0
                  THEN [sockets EXCEPT ![svc.ws].sent = @ + ChunkSent(World, copies)]
                  ELSE sockets
    /\ lastEvent' = Event("other")
    /\ UNCHANGED <<svc, calls, audio, hookError, delivered, stopRequested, nMessages,
                   transcript, finals, isRecording>>
    /\ UNCHANGED <<schedulerVars, proxyVars, summarizerVars, fileVars>>

\* A tick of a running test-audio interval.
TestAudioTick ==
    /\ audio.intervals > 0
    /\ AudioChunk(1)

\* AudioRecord emits 'data': every listener registered so far handles it.
MicrophoneData ==
    /\ audio.capturing
    /\ AudioChunk(audio.listeners)

\* What axios.post('/transcribe-file') settles with: a response with a
\* transcript, the response of a request that got no transcript, or an error.
FileOutcomes ==
    { [ok |-> TRUE, transcript |-> "Hello world"],
      [ok |-> TRUE, transcript |-> "No transcript received"],
      [ok |-> FALSE, transcript |-> ""] }

\* App.handleTestMP3 up to the await in DeepgramService.transcribeFile: the
\* callback is stored in the service and the request is posted.
TranscribeFile ==
    /\ fileCall.pc = "idle"
    /\ fileCall' = [pc |-> "posted", before |-> svc.transcriptCallback,
                    recording |-> svc.isRecording]
    /\ svc' = [svc EXCEPT !.transcriptCallback = "file"]
    /\ lastEvent' = Event("other")
    /\ UNCHANGED <<sockets, calls, audio, hookError, delivered, chunkLog, stopRequested,
                   nMessages, transcript, finals, isRecording, fileTranscript>>
    /\ UNCHANGED <<schedulerVars, proxyVars, summarizerVars, fileServerVars>>

\* The request settles: transcribeFile invokes its callback with a transcript
\* that is not empty and returns it, and handleTestMP3 handles it once more;
\* or transcribeFile throws and handleTestMP3 shows an alert.
FileResponse(outcome) ==
    /\ fileCall.pc = "posted"
    /\ LET text == outcome.transcript
           message == [transcript |-> text, isFinal |-> TRUE]
           called == IF text # "" THEN FileCallback(fileTranscript, message)
                     ELSE fileTranscript
       IN  IF outcome.ok
           THEN /\ fileCall' = [fileCall EXCEPT !.pc = "done"]
                /\ fileTranscript' = IF text # "" THEN HandleFileMessage(called, message)
                                     ELSE called
           ELSE /\ fileCall' = [fileCall EXCEPT !.pc = "failed"]
                /\ UNCHANGED fileTranscript
    /\ lastEvent' = Event("other")
    /\ UNCHANGED <<svc, sockets, calls, audio, hookError, delivered, chunkLog,
                   stopRequested, nMessages, transcript, finals, isRecording>>
    /\ UNCHANGED <<proxyVars, summarizerVars, fileServerVars>>
    /\ AppRender(TRUE)

\* App.handleClearAll, 'Clear' pressed: clearTranscript(), setFileTranscript('')
\* and clearSummaries() in one callback, and the render they cause; the
\* effect of useSummaries runs after clearSummaries has emptied
\* lastTranscriptRef, if the transcript it is given has changed.
HandleClearAll ==
    /\ transcript' = ""
    /\ fileTranscript' = ""
    /\ finals' = ""
    /\ lastOp' = [kind |-> "clear", text |-> "",
                  committedBefore |-> Committed(transcript), runStart |-> "",
                  run |-> 0]
    /\ currentSummary' = "null"
    /\ summaryHistory' = <<>>
    /\ lastSummarized' = [has |-> FALSE, text |-> "", stopped |-> FALSE]
    /\ LET issue == ImmediateIssues("", "")
           runs == issue /\ GenerateSummaryRuns("")
       IN  IF AppTranscript(transcript, fileTranscript) = ""
           THEN /\ lastTranscriptRef' = ""
                /\ UNCHANGED <<intervalRef, inFlight, isLoading, sumError, lastFire,
                               nIssued>>
           ELSE IF ~isRecording
           THEN /\ lastTranscriptRef' = ""
                /\ intervalRef' = StoppedInterval(intervalRef)
                /\ UNCHANGED <<inFlight, isLoading, sumError, lastFire, nIssued>>
           ELSE /\ nIssued + (IF runs THEN 1 ELSE 0) <= MaxRequests
                /\ lastTranscriptRef' = ""
                /\ inFlight' = IF runs THEN Append(inFlight, "") ELSE inFlight
                /\ isLoading' = IF runs THEN TRUE ELSE isLoading
                /\ sumError' = IF runs THEN "null" ELSE sumError
                /\ nIssued' = nIssued + (IF runs THEN 1 ELSE 0)
                /\ intervalRef' = [armed |-> TRUE, transcript |-> ""]
                /\ lastFire' = FireRecord("immediate", "transcript", "", "", "", runs)
    /\ lastEvent' = Event("other")
    /\ UNCHANGED <<svc, sockets, calls, audio, hookError, delivered, chunkLog,
                   stopRequested, nMessages, isRecording, nFragments, clock, fileCall>>
    /\ UNCHANGED <<proxyVars, summarizerVars, fileServerVars>>

InitFileClient ==
    /\ fileCall = [pc |-> "idle", before |-> "null", recording |-> FALSE]
    /\ fileTranscript = ""

InitService ==
    /\ svc = [ws |-> NoSocket, isRecording |-> FALSE, transcriptCallback |-> "null",
              useTestAudio |-> FALSE, testAudioInterval |-> FALSE,
              audioRecordInitialized |-> FALSE]
    /\ sockets = [k \in Calls |-> [readyState |-> "NONE", closeCalls |-> <<>>,
                                   sent |-> 0]]
    /\ calls = [k \in Calls |-> [pc |-> "idle", useTestAudio |-> FALSE,
                                 promise |-> "none", timeout |-> FALSE]]
    /\ audio = [intervals |-> 0, listeners |-> 0, capturing |-> FALSE]
    /\ hookError = "null"
    /\ delivered = <<>>
    /\ chunkLog = <<>>
    /\ lastEvent = Event("none")
    /\ stopRequested = FALSE
    /\ nMessages = 0

\* The calls of the hook and the events of the sockets, `limit` start calls
\* being made.
NextCalls(limit) ==
    \/ \E test \in BOOLEAN : HookStartTranscription(test, limit, FALSE)
    \/ \E k \in Calls, granted \in BOOLEAN : PermissionResult(k, granted, FALSE)
    \/ \E k \in Calls, mic \in MicOutcomes : SocketOpen(k, mic, FALSE)
    \/ \E k \in Calls : SocketError(k, FALSE)
    \/ \E k \in Calls, code \in RemoteCloseCodes : SocketClose(k, code, FALSE)
    \/ \E k \in Calls : ConnectTimeout(k, FALSE)
    \/ HookStopTranscription(FALSE)

\* The messages of the sockets.
NextMessages ==
    \E k \in Calls, frame \in ServiceFrames : SocketMessage(k, frame, FALSE)

\* The chunks of the audio sources.
NextChunks ==
    \/ TestAudioTick
    \/ MicrophoneData

NextService == NextCalls(MaxStarts) \/ NextMessages

\* Sessions that start on test audio and open without a failure, and every
\* kind of message on their sockets.
NextFrames ==
    \/ HookStartTranscription(TRUE, MaxStarts, FALSE)
    \/ \E k \in Calls : PermissionResult(k, TRUE, FALSE)
    \/ \E k \in Calls : SocketOpen(k, "ok", FALSE)
    \/ HookStopTranscription(FALSE)
    \/ \E k \in Calls, frame \in SessionFrames : SocketMessage(k, frame, FALSE)

NextAudio == NextCalls(MaxStarts) \/ NextChunks

NextRestart == NextCalls(MaxStarts + 1) \/ NextMessages

-----------------------------------------------------------------------------
(* POST /transcribe-file (api server): one request *)

\* The paths a request names: none, a file that does not exist, the sample.
FilePaths == {"", "mobile/missing.mp3", "mobile/trial_voice1.mp3"}

\* fs.existsSync over the paths tried.
FileExists(filePath) == filePath = "mobile/trial_voice1.mp3"

\* The messages of the upstream socket: those of the proxy and a legacy result.
FileFrames ==
    ServiceFrames \cup
    { Frame("string", TRUE, "Results", TRUE, "Hello there", "", -1, "true") }

ErrorResponse(status, error) ==
    [status |-> status, error |-> error, transcript |-> "", isFinal |-> FALSE]

\* The body of a 200 response: transcript || placeholder, isFinal: isComplete.
TranscriptResponse(j, placeholder) ==
    [status |-> 200, error |-> "",
     transcript |-> IF j.transcript # "" THEN j.transcript ELSE placeholder,
     isFinal |-> j.isComplete]

\* res.json(body) of Express: the first call sends the response; a call after
\* the headers were sent throws ERR_HTTP_HEADERS_SENT and sends nothing.
ResJson_SendsAgain(r, body) ==
    [r EXCEPT !.headersSent = TRUE, !.sent = Append(@, body)]
ResJson(r, body) ==
    IF r.headersSent
    THEN [r EXCEPT !.threw = TRUE]
    ELSE [r EXCEPT !.headersSent = TRUE, !.sent = Append(@, body)]

\* if (!res.headersSent) res.json(body)
JsonIfUnsent(r, body) == IF ~r.headersSent THEN ResJson(r, body) ELSE r

\* deepgramWs.close(): the closing handshake of an open socket begins, the
\* handshake of a connecting one is aborted.
CloseFileWs(ws) ==
    IF ws.readyState = "CONNECTING"
    THEN [ws EXCEPT !.readyState = "CLOSING", !.closedBy = "abort"]
    ELSE IF ws.readyState = "OPEN"
    THEN [ws EXCEPT !.readyState = "CLOSING", !.closedBy = "server"]
    ELSE ws

\* The socket delivers messages while it is open, and while it waits for the
\* peer's answer to a close of an open socket this side started.
FileReceiving(ws) ==
    \/ ws.readyState = "OPEN"
    \/ ws.readyState = "CLOSING" /\ ws.closedBy = "server"

\* The handler of app.post('/transcribe-file') up to its return: a response
\* 400, 404 or 500, or the upstream socket and the 60 s timer.
PostTranscribeFile(filePath) ==
    /\ job.pc = "idle"
    /\ IF filePath = ""
       THEN /\ res' = ResJson(res, ErrorResponse(400, "Invalid request"))
            /\ job' = [job EXCEPT !.pc = "refused"]
            /\ UNCHANGED fileWs
       ELSE IF ~FileExists(filePath)
       THEN /\ res' = ResJson(res, ErrorResponse(404, "File not found"))
            /\ job' = [job EXCEPT !.pc = "refused"]
            /\ UNCHANGED fileWs
       ELSE IF ~apiKey
       THEN /\ res' = ResJson(res, ErrorResponse(500, "DEEPGRAM_API_KEY is missing!"))
            /\ job' = [job EXCEPT !.pc = "refused"]
            /\ UNCHANGED fileWs
       ELSE /\ fileWs' = [fileWs EXCEPT !.readyState = "CONNECTING"]
            /\ job' = [job EXCEPT !.pc = "upstream", !.timeout = TRUE]
            /\ UNCHANGED res
    /\ UNCHANGED <<ffmpeg, fileLog>>
    /\ UNCHANGED <<hookVars, proxyVars, serviceVars, summarizerVars, fileClientVars>>

\* deepgramWs.on('open'): ffmpeg is spawned.
FileUpstreamOpen ==
    /\ ~res.threw
    /\ fileWs.readyState = "CONNECTING"
    /\ fileWs' = [fileWs EXCEPT !.readyState = "OPEN"]
    /\ ffmpeg' = [ffmpeg EXCEPT !.spawned = TRUE]
    /\ UNCHANGED <<res, job, fileLog>>
    /\ UNCHANGED <<hookVars, proxyVars, serviceVars, summarizerVars, fileClientVars>>

\* ffmpeg.stdout.on('data'): the chunk is sent if the socket is open.
FfmpegData ==
    /\ ~res.threw
    /\ ffmpeg.spawned /\ ~ffmpeg.failed /\ ~ffmpeg.closed
    /\ ffmpeg.chunks < MaxChunks
    /\ ffmpeg' = [ffmpeg EXCEPT !.chunks = @ + 1]
    /\ fileWs' = IF fileWs.readyState = "OPEN"
                 THEN [fileWs EXCEPT !.sent = @ + 1]
                 ELSE fileWs
    /\ UNCHANGED <<res, job, fileLog>>
    /\ UNCHANGED <<hookVars, proxyVars, serviceVars, summarizerVars, fileClientVars>>

\* ffmpeg.on('close'): the 1 s timer is set.
FfmpegClose ==
    /\ ~res.threw
    /\ ffmpeg.spawned /\ ~ffmpeg.closed
    /\ ffmpeg' = [ffmpeg EXCEPT !.closed = TRUE]
    /\ job' = [job EXCEPT !.closeTimer = TRUE]
    /\ UNCHANGED <<res, fileWs, fileLog>>
    /\ UNCHANGED <<hookVars, proxyVars, serviceVars, summarizerVars, fileClientVars>>

\* The 1 s timer fires: the socket is closed if it is open.
FfmpegCloseTimer ==
    /\ ~res.threw
    /\ job.closeTimer
    /\ job' = [job EXCEPT !.closeTimer = FALSE]
    /\ fileWs' = IF fileWs.readyState = "OPEN" THEN CloseFileWs(fileWs) ELSE fileWs
    /\ UNCHANGED <<res, ffmpeg, fileLog>>
    /\ UNCHANGED <<hookVars, proxyVars, serviceVars, summarizerVars, fileClientVars>>

\* ffmpeg.on('error'): res.status(500).json(...) with no check of headersSent,
\* and deepgramWs.close() if that did not throw.
FfmpegError ==
    /\ ~res.threw
    /\ ffmpeg.spawned /\ ~ffmpeg.failed /\ ~ffmpeg.closed
    /\ ffmpeg' = [ffmpeg EXCEPT !.failed = TRUE]
    /\ res' = ResJson(res, ErrorResponse(500, "Failed to process audio file"))
    /\ fileWs' = IF res.headersSent THEN fileWs ELSE CloseFileWs(fileWs)
    /\ UNCHANGED <<job, fileLog>>
    /\ UNCHANGED <<hookVars, proxyVars, serviceVars, summarizerVars, fileClientVars>>

\* What the 'message' handler reads in a frame: nothing in one that is no
\* JSON object, a transcript and its finality in a TurnInfo with a transcript
\* or a Results with one that is not empty, blank transcripts being skipped.
FileMessage(frame) ==
    IF ~frame.json THEN <<>>
    ELSE IF frame.type = "TurnInfo" /\ frame.hasTranscript
    THEN IF Trim(frame.transcript) # ""
         THEN << [transcript |-> frame.transcript,
                  isFinal |-> \/ frame.event = "EndOfTurn"
                              \/ /\ frame.event = "Update"
                                 /\ frame.confidence # -1
                                 /\ frame.confidence > 50] >>
         ELSE <<>>
    ELSE IF frame.type = "Results" /\ frame.hasTranscript /\ frame.transcript # ""
    THEN IF Trim(frame.transcript) # ""
         THEN << [transcript |-> frame.transcript,
                  isFinal |-> frame.is_final = "true"] >>
         ELSE <<>>
    ELSE <<>>

\* The transcript and isComplete after a message: a final fragment sets both,
\* an interim one the transcript only.
AfterFileMessage(j, msgs) ==
    IF msgs = <<>> THEN j
    ELSE IF msgs[1].isFinal
    THEN [j EXCEPT !.transcript = msgs[1].transcript, !.isComplete = TRUE]
    ELSE [j EXCEPT !.transcript = msgs[1].transcript]

\* deepgramWs.on('message')
FileUpstreamMessage(frame) ==
    /\ ~res.threw
    /\ FileReceiving(fileWs)
    /\ Len(fileLog) < MaxFrames
    /\ job' = AfterFileMessage(job, FileMessage(frame))
    /\ fileLog' = Append(fileLog, FileMessage(frame))
    /\ UNCHANGED <<res, fileWs, ffmpeg>>
    /\ UNCHANGED <<hookVars, proxyVars, serviceVars, summarizerVars, fileClientVars>>

\* deepgramWs.on('error'): 500 unless the headers were sent.  The socket is
\* destroyed, its 'close' follows.
FileUpstreamError ==
    /\ ~res.threw
    /\ fileWs.readyState \in {"CONNECTING", "OPEN", "CLOSING"}
    /\ fileWs.closedBy # "error"
    /\ fileWs' = [fileWs EXCEPT !.readyState = "CLOSING", !.closedBy = "error"]
    /\ res' = JsonIfUnsent(res, ErrorResponse(500, "Deepgram connection failed"))
    /\ UNCHANGED <<ffmpeg, job, fileLog>>
    /\ UNCHANGED <<hookVars, proxyVars, serviceVars, summarizerVars, fileClientVars>>

\* Deepgram's close frame arrives on the open socket: ws answers it and waits
\* for the socket to end.  No handler of the request runs.
FileUpstreamCloseFrame ==
    /\ ~res.threw
    /\ fileWs.readyState = "OPEN"
    /\ fileWs' = [fileWs EXCEPT !.readyState = "CLOSING", !.closedBy = "peer"]
    /\ UNCHANGED <<res, ffmpeg, job, fileLog>>
    /\ UNCHANGED <<hookVars, proxyVars, serviceVars, summarizerVars, fileClientVars>>

\* deepgramWs.on('close'): the transcript is answered unless the headers were
\* sent.  A closing socket ends, or the connection of an open one drops.
FileUpstreamClose ==
    /\ ~res.threw
    /\ fileWs.readyState \in {"OPEN", "CLOSING"}
    /\ fileWs' = [fileWs EXCEPT !.readyState = "CLOSED",
                                !.closedBy = IF @ = "none" THEN "peer" ELSE @]
    /\ res' = JsonIfUnsent(res, TranscriptResponse(job, "No transcript received"))
    /\ UNCHANGED <<ffmpeg, job, fileLog>>
    /\ UNCHANGED <<hookVars, proxyVars, serviceVars, summarizerVars, fileClientVars>>

\* The 60 s timer fires: unless the headers were sent, deepgramWs.close() and
\* the transcript so far.  close() on a connecting socket aborts the
\* handshake; ws 7 emits 'error' inside that call, ws 8 on the next tick
\* (`inside` tells which), and the 'error' handler answers 500 before
\* res.json runs.
FileTimeout(inside) ==
    /\ ~res.threw
    /\ job.timeout
    /\ job' = [job EXCEPT !.timeout = FALSE]
    /\ IF res.headersSent
       THEN /\ ~inside
            /\ UNCHANGED <<res, fileWs>>
       ELSE IF fileWs.readyState = "CONNECTING" /\ inside
       THEN /\ fileWs' = [fileWs EXCEPT !.readyState = "CLOSING", !.closedBy = "error"]
            /\ res' = ResJson(JsonIfUnsent(res, ErrorResponse(500,
                                                  "Deepgram connection failed")),
                              TranscriptResponse(job, "Transcription timeout"))
       ELSE /\ ~inside
            /\ fileWs' = CloseFileWs(fileWs)
            /\ res' = ResJson(res, TranscriptResponse(job, "Transcription timeout"))
    /\ UNCHANGED <<ffmpeg, fileLog>>
    /\ UNCHANGED <<hookVars, proxyVars, serviceVars, summarizerVars, fileClientVars>>

InitFileServer ==
    /\ res = [headersSent |-> FALSE, sent |-> <<>>, threw |-> FALSE]
    /\ fileWs = [readyState |-> "NONE", closedBy |-> "none", sent |-> 0]
    /\ ffmpeg = [spawned |-> FALSE, failed |-> FALSE, closed |-> FALSE, chunks |-> 0]
    /\ job = [pc |-> "idle", transcript |-> "", isComplete |-> FALSE,
              timeout |-> FALSE, closeTimer |-> FALSE]
    /\ fileLog = <<>>

NextFile ==
    \/ \E filePath \in FilePaths : PostTranscribeFile(filePath)
    \/ FileUpstreamOpen
    \/ FfmpegData
    \/ FfmpegClose
    \/ FfmpegCloseTimer
    \/ FfmpegError
    \/ \E frame \in FileFrames : FileUpstreamMessage(frame)
    \/ FileUpstreamError
    \/ FileUpstreamCloseFrame
    \/ FileUpstreamClose
    \/ \E inside \in BOOLEAN : FileTimeout(inside)

\* App.handleToggleRecording: stopTranscription() when the hook records,
\* startTranscription(false) when it does not.
HandleToggleRecording ==
    IF isRecording
    THEN HookStopTranscription(TRUE)
    ELSE HookStartTranscription(FALSE, MaxStarts, TRUE)

\* The App: the recording button, the file button and 'Clear All', the events
\* of the sockets and of the file request, and useSummaries on
\* liveTranscript || fileTranscript.
NextApp ==
    \/ HandleToggleRecording
    \/ \E k \in Calls, granted \in BOOLEAN : PermissionResult(k, granted, TRUE)
    \/ \E k \in Calls, mic \in MicOutcomes : SocketOpen(k, mic, TRUE)
    \/ \E k \in Calls : SocketError(k, TRUE)
    \/ \E k \in Calls, code \in RemoteCloseCodes : SocketClose(k, code, TRUE)
    \/ \E k \in Calls : ConnectTimeout(k, TRUE)
    \/ \E k \in Calls, frame \in ServiceFrames : SocketMessage(k, frame, TRUE)
    \/ TranscribeFile
    \/ \E outcome \in FileOutcomes : FileResponse(outcome)
    \/ HandleClearAll
    \/ IntervalFire
    \/ SummarySuccess
    \/ SummaryFailure

-----------------------------------------------------------------------------
(* Specifications *)

Init ==
    /\ InitHook /\ InitProxy /\ InitService /\ InitSummarizer
    /\ InitFileClient /\ InitFileServer

\* The hooks, the server being configured and idle.
InitHooks == Init /\ apiKey = TRUE

\* The transcript under fragments and clears.
SpecTranscript == InitHooks /\ [][NextTranscript]_vars

\* The transcript hook and the scheduler.
SpecHook == InitHooks /\ [][NextHook]_vars

\* The transcript hook and the scheduler, for the summary history.
SpecHistory == InitHooks /\ [][NextHistory]_vars

\* The streaming client under useTranscription, useSummaries not mounted: the
\* calls, the sockets and their messages.  A message changes the transcript and
\* nothing of the service; a chunk changes nothing but what was sent.
SpecService == InitHooks /\ [][NextService]_vars

\* The same with the audio sources in place of the messages.
SpecAudio == InitHooks /\ [][NextAudio]_vars

\* The opening of a connection, for every inbound address.
InitOpen ==
    /\ InitHook /\ InitService /\ InitSummarizer /\ InitProxyWith(InboundUrls)
    /\ InitFileClient /\ InitFileServer
SpecOpen == InitOpen /\ [][NextOpen]_vars

\* The summaries, their identifiers being readings of the clock.
SpecClock == InitHooks /\ [][NextClock]_vars

\* The summarization endpoint under one request.
SpecSummarize == InitHooks /\ [][NextSummarize]_vars

\* The streaming client under every kind of message.
SpecFrames == InitHooks /\ [][NextFrames]_vars

\* The same as SpecService with one start call more: calls that overlap, and a
\* session that follows another.
SpecRestart == InitHooks /\ [][NextRestart]_vars

\* The App: a live session, a file call and the summaries.
SpecApp == InitHooks /\ [][NextApp]_vars

\* One request to the file endpoint.
SpecFile == Init /\ [][NextFile]_vars

\* One connection of the relay proxy.
SpecProxy == Init /\ [][NextProxy]_vars

\* A closing socket ends: ws destroys a socket whose closing handshake is not
\* answered in time, and emits 'close' after every 'error'.
ClosingClientEnds == clientWs.readyState = "CLOSING" /\ ClientClose
ClosingUpstreamEnds == deepgramWs.readyState = "CLOSING" /\ UpstreamClose

FairSpecProxy ==
    /\ Init /\ [][NextProxy]_vars
    /\ WF_vars(ClosingClientEnds)
    /\ WF_vars(ClosingUpstreamEnds)

-----------------------------------------------------------------------------
(* Claims about the transcript (SpecTranscript) *)

HasNoMarker(text) == IndexOf(text, InterimMarker) = 0

\* C1: after zero or more interim fragments followed by one final fragment
\* with text T, the committed transcript is T when the committed transcript C
\* before the sequence was empty and C + " " + T otherwise, and the pending
\* text is empty.  Stated for the texts T that hold no marker of their own.
C1_FinalCommits ==
    (lastOp.kind = "final" /\ HasNoMarker(lastOp.text)) =>
        /\ Committed(transcript) =
               (IF lastOp.runStart = "" THEN lastOp.text
                ELSE lastOp.runStart \o " " \o lastOp.text)
        /\ Pending(transcript) = ""

\* C2: the committed transcript before a fragment is a prefix of the committed
\* transcript after it; only clearTranscript shrinks it, and it leaves the
\* committed and the pending text empty.
C2_CommittedNeverRetracted ==
    [][ IF lastOp'.kind = "clear"
        THEN Committed(transcript') = "" /\ Pending(transcript') = ""
        ELSE IsPrefix(Committed(transcript), Committed(transcript')) ]_vars

\* C2's case: a committed text of two final fragments that has survived a
\* later interim fragment.
C2_Witness ==
    /\ lastOp.kind = "interim"
    /\ lastOp.committedBefore = "Hello world Hello"
    /\ Committed(transcript) = "Hello world Hello"

\* C3: after a sequence of interim fragments only, the committed transcript
\* is what it was before the sequence and the pending text is the text of the
\* latest interim fragment alone.
C3_InterimReplacesPending ==
    lastOp.kind = "interim" =>
        /\ Committed(transcript) = lastOp.runStart
        /\ Pending(transcript) = lastOp.text

\* C3's case: a second interim fragment in a row, on a transcript that holds
\* committed text.
C3_Witness ==
    /\ lastOp.kind = "interim"
    /\ lastOp.run = 2
    /\ lastOp.runStart = "Hello"
    /\ lastOp.text = "Hello world"
    /\ transcript = "Hello [interim] Hello world"

-----------------------------------------------------------------------------
(* Claims about the scheduler (SpecHook, SpecHistory) *)

\* C4: a fire, immediate or periodic, at which the committed transcript is the
\* text of the last successfully completed summarization issues no request.
C4_DebounceSkipsUnchanged ==
    lastFire.unchanged => ~lastFire.issued

\* C5: at most one summarization request is in flight at any time.
C5_NoOverlappingRequests ==
    Len(inFlight) <= 1

\* C18: the text of a summarization request is the committed transcript of
\* the moment the scheduler fired: the final fragments since the last clear
\* joined by single spaces, with no pending interim text in it.
C18_RequestTextIsCommittedTranscript ==
    lastFire.issued =>
        /\ lastFire.text = lastFire.finals
        /\ HasNoMarker(lastFire.text)

\* C19: a request is issued only when the recording starts and when the timer
\* fires, never because a fragment has changed the transcript.
C19_RequestsOnlyAtStartAndTimer ==
    lastFire.issued => lastFire.trigger \in {"start", "timer"}

\* C20: a successful summarization puts one item, its own, in front of the
\* history and leaves the items there were unchanged and in their order; a
\* step that is no successful summarization changes the history only by
\* clearSummaries, which empties it.
C20_HistoryGrowsAtFront ==
    [][ /\ SummarySuccess =>
               /\ Len(summaryHistory') = Len(summaryHistory) + 1
               /\ Tail(summaryHistory') = summaryHistory
               /\ Head(summaryHistory').summary = currentSummary'
        /\ (~SummarySuccess /\ summaryHistory' # summaryHistory) =>
               ClearSummaries /\ summaryHistory' = <<>> ]_vars

\* C20's case: a second summary put in front of a first, different one.
C20_Witness ==
    /\ Len(summaryHistory) = 2
    /\ summaryHistory[1].summary = "S2"
    /\ summaryHistory[2].summary = "S1"
    /\ currentSummary = "S2"

\* C21: a summarization request that fails (an error response, a network
\* error, a timeout) leaves the current summary and the history as they were,
\* adds no item, and records an error.
C21_FailureKeepsSummaries ==
    [][SummaryFailure =>
          /\ currentSummary' = currentSummary
          /\ summaryHistory' = summaryHistory
          /\ sumError' # "null"]_vars

\* A request has failed after another had succeeded: the summary of the first
\* is still shown, with the error.
C21_Witness ==
    /\ sumError # "null"
    /\ currentSummary \in Summaries
    /\ Len(summaryHistory) = 1
    /\ nIssued = 2
    /\ inFlight = <<>>

\* C22: while nothing records the timer is cancelled and no step issues a
\* request (the step that stops the recording included); a request in flight
\* when the recording stops still completes, and its summary is added to the
\* history.
C22_StopCancelsTimer ==
    [][/\ ~isRecording' => (~intervalRef'.armed /\ nIssued' = nIssued)
       /\ (SummarySuccess /\ ~isRecording) =>
              (/\ Len(summaryHistory') = Len(summaryHistory) + 1
               /\ summaryHistory'[1].summary = currentSummary'
               /\ lastSummarized'.stopped)]_vars

\* The recording has stopped with a request in flight, which has then
\* completed: its summary is in the history.
C22_Witness ==
    /\ ~isRecording
    /\ lastSummarized.has /\ lastSummarized.stopped
    /\ Len(summaryHistory) >= 1
    /\ ~intervalRef.armed

\* C27: once a summarization has completed successfully the accumulated
\* transcript is empty.
C27_SuccessClearsTranscript ==
    [][SummarySuccess => transcript' = ""]_vars

\* C29: the scheduler's events (a fire of the timer, the completion of a
\* request, clearSummaries) never change the transcript, and the arrival of a
\* fragment never changes the debounce baseline, the requests in flight, the
\* loading state or the history.
C29_SingleWriter ==
    [][/\ (IntervalFire \/ SummarySuccess \/ SummaryFailure \/ ClearSummaries)
            => transcript' = transcript
       /\ nFragments' # nFragments
            => UNCHANGED <<lastTranscriptRef, inFlight, isLoading, summaryHistory>>]_vars

\* The number of interim markers in a transcript.
RECURSIVE MarkerCount(_)
MarkerCount(t) ==
    IF IndexOf(t, InterimMarker) = 0 THEN 0
    ELSE 1 + MarkerCount(SubSeq(t, IndexOf(t, InterimMarker) + Len(InterimMarker),
                                Len(t)))

\* C30: a transcript holds at most one interim marker, and the text after it
\* is the text of a single fragment.
C30_OnePendingFragment ==
    /\ MarkerCount(transcript) <= 1
    /\ MarkerCount(transcript) = 1 => Pending(transcript) \in SchedulerTexts

\* C38: the items of the summary history have pairwise distinct identifiers.
C38_DistinctIdentifiers ==
    \A i, j \in 1..Len(summaryHistory) :
        i # j => summaryHistory[i].id # summaryHistory[j].id

\* C37: isLoading is true exactly while a summarization request is in flight.
C37_LoadingWhileInFlight ==
    isLoading <=> inFlight # <<>>

-----------------------------------------------------------------------------
(* Claims about the relay proxy (SpecProxy, FairSpecProxy) *)

\* The frames received from the client while the upstream socket was open.
RECURSIVE ReceivedWhileUpstreamOpen(_)
ReceivedWhileUpstreamOpen(log) ==
    IF log = <<>> THEN <<>>
    ELSE (IF Head(log).upOpen THEN <<Head(log).frame>> ELSE <<>>)
         \o ReceivedWhileUpstreamOpen(Tail(log))

\* The frames received from upstream while the client socket was open.
RECURSIVE ReceivedWhileClientOpen(_)
ReceivedWhileClientOpen(log) ==
    IF log = <<>> THEN <<>>
    ELSE (IF Head(log).clientOpen THEN <<Head(log).frame>> ELSE <<>>)
         \o ReceivedWhileClientOpen(Tail(log))

\* C6: no upstream socket is open once its client socket has closed.
C6_NoUpstreamLeftOpen ==
    clientWs.readyState = "CLOSED" => deepgramWs.readyState # "OPEN"

\* C7: once the upstream socket has failed or closed, the inbound client
\* socket is eventually closed.
C7_UpstreamDownClosesClient ==
    (deepgramWs.readyState \in {"CLOSING", "CLOSED"})
        ~> (clientWs.readyState = "CLOSED")

\* C7's case: upstream failed and the proxy closed the client for it.
C7_Witness ==
    /\ deepgramWs.readyState = "CLOSED"
    /\ deepgramWs.closedBy = "error"
    /\ clientWs.readyState = "CLOSED"
    /\ clientWs.closedBy = "proxy"

\* C8: the frames sent upstream are the frames received from the client while
\* upstream was open, each with its frame type and its payload.
C8_ClientFramesForwardedAsReceived ==
    toUpstream = ReceivedWhileUpstreamOpen(clientLog)

\* C9: the frames sent to the client are the frames received from upstream
\* while the client socket was open, each once, with its frame type and its
\* payload.
C9_UpstreamFramesForwardedAsReceived ==
    toClient = ReceivedWhileClientOpen(upstreamLog)

\* C9's case: a text frame and a binary frame forwarded, and a frame that
\* arrived after the client had left.
C9_Witness ==
    /\ Len(toClient) = 2
    /\ toClient[1] = [binary |-> FALSE, bytes |-> <<123, 125>>]
    /\ toClient[2] = [binary |-> TRUE, bytes |-> <<1>>]

\* C10: for every binary frame received from the client while upstream is
\* open, upstream gets one binary frame with the same bytes, and the frames
\* go upstream in the order in which they were received.
C10_BinaryFramesForwardedInOrder ==
    LET received == ReceivedWhileUpstreamOpen(clientLog)
    IN  /\ Len(toUpstream) = Len(received)
        /\ \A i \in 1..Len(received) :
               received[i].binary =>
                   toUpstream[i] = [binary |-> TRUE, bytes |-> received[i].bytes]

\* C10's case: two different audio chunks forwarded in their order.
C10_Witness ==
    /\ Len(clientLog) = 2
    /\ toUpstream = << [binary |-> TRUE, bytes |-> <<0, 255>>],
                       [binary |-> TRUE, bytes |-> <<7>>] >>

\* C11: without a credential the proxy closes the inbound connection and
\* never creates an upstream connection for it, and the status it closes with
\* is the status of no other closure: a client closed by the proxy with that
\* status has met a server without credential.
C11_MissingKeyStatusIsDistinct ==
    /\ (~apiKey /\ clientWs.readyState # "NONE") =>
           /\ clientWs.closedBy = "proxy"
           /\ deepgramWs.readyState = "NONE"
           /\ toUpstream = <<>>
    /\ (clientWs.closedBy = "proxy" /\ clientWs.code = 1011) => ~apiKey

\* C31: for each session-open parameter the upstream address carries the
\* client's value when the inbound address has one, and the default when it
\* has none (an empty value counting as none).
C31_UpstreamAddressCarriesParameters ==
    deepgramUrl # "" =>
        \A n \in 1..Len(ParamNames) :
            LET given == SearchParamsGet(SearchParams(reqUrl), ParamNames[n])
                sent == SearchParamsGet(SearchParams(deepgramUrl), ParamNames[n])
            IN  /\ sent.has
                /\ sent.value = IF given.has /\ given.value # ""
                                THEN given.value ELSE ParamDefaults[n]

\* C36: a frame received from the client while upstream is not open is
\* dropped: it is not sent upstream then, and not when upstream opens; the
\* frames sent upstream are as many as the frames received while it was open.
C36_FramesBeforeOpenAreDropped ==
    [][/\ (deepgramWs.readyState # "OPEN" /\ clientLog' # clientLog)
            => toUpstream' = toUpstream
       /\ UpstreamOpen => toUpstream' = toUpstream
       /\ Len(toUpstream') =
              Cardinality({i \in 1..Len(clientLog') : clientLog'[i].upOpen})]_vars

\* A frame arrived while upstream was connecting, upstream then opened, and
\* the next frame was forwarded: only that one has been sent.
C36_Witness ==
    /\ Len(clientLog) = 2
    /\ ~clientLog[1].upOpen /\ clientLog[2].upOpen
    /\ Len(toUpstream) = 1
    /\ deepgramWs.readyState = "OPEN"

\* The status an open client is closed with when upstream has closed
\* normally.
NormalClosureStatus ==
    OnUpstreamClose([readyState |-> "OPEN", closedBy |-> "none", code |-> 0,
                     reason |-> ""]).code

\* C25: the status the proxy closes the client with tells a normal closure of
\* upstream from an abnormal one: a client closed with the status of a normal
\* closure has met an upstream that closed with 1000.
C25_CloseStatusTellsAbnormalClosure ==
    (/\ deepgramWs.readyState = "CLOSED"
     /\ clientWs.closedBy = "proxy"
     /\ clientWs.code = NormalClosureStatus)
        => deepgramWs.code = 1000

-----------------------------------------------------------------------------
(* Claims about the summarization endpoint (SpecSummarize) *)

\* A sentence without the terminators at its end.
RECURSIVE StripTerminators(_)
StripTerminators(t) ==
    IF EndsWithTerminator(t) THEN StripTerminators(SubSeq(t, 1, Len(t) - 1)) ELSE t

\* C23: for a raw summary of more than maxSentences sentences (maxSentences
\* being positive), the result of enforceSentenceLimit holds exactly
\* maxSentences sentences, which are the first maxSentences of the input in
\* their order, and ends with a terminal punctuation mark.
C23_TruncatesToFirstSentences ==
    LET in == SplitSentences(lastLimit.text)
        out == SplitSentences(lastLimit.result)
        n == lastLimit.maxSentences
    IN  (lastLimit.has /\ Len(in) > n) =>
            /\ Len(out) = n
            /\ \A i \in 1..n : StripTerminators(out[i]) = in[i]
            /\ EndsWithTerminator(lastLimit.result)

\* A raw summary of three sentences, the second of which ends with '?', has
\* been cut to two.
C23_Witness ==
    /\ lastLimit.has
    /\ lastLimit.maxSentences = 2
    /\ lastLimit.text = "a. a? a"
    /\ lastLimit.result = "a. a."

\* C24: a request whose text is empty is answered successfully with the empty
\* summary, and the model is not run.
C24_EmptyTextGivesEmptySummary ==
    (request.pc = "done" /\ request.isString /\ request.text = "")
        => (response.status = 200 /\ response.summary = "" /\ modelRuns = 0)

-----------------------------------------------------------------------------
(* Claims about the streaming client (SpecService, SpecAudio, SpecRestart) *)

\* The close() calls of stopTranscription on a socket.
StopCloseCalls(sock) ==
    { i \in 1..Len(sock.closeCalls) : sock.closeCalls[i].by = "stop" }

\* C12: when the socket of a recording session fails or closes abnormally,
\* the session stops with an error: the service no longer records, no audio
\* source runs, and the hook's recording flag is false with its error set.
C12_SocketLossStopsSession ==
    (lastEvent.kind = "socketEnded" /\ lastEvent.abnormal /\ lastEvent.session) =>
        /\ ~svc.isRecording
        /\ audio.intervals = 0
        /\ ~audio.capturing
        /\ ~isRecording
        /\ hookError # "null"

\* C13: stopTranscription called twice leaves the service, its sockets and
\* its audio sources as one call leaves them; a call on a service that does
\* not record changes nothing; and stopTranscription closes a socket at most
\* once, with code 1000.
C13_StopIsIdempotent ==
    LET once == StopTranscription(World)
        twice == StopTranscription(once)
    IN  /\ twice = once
        /\ ~svc.isRecording => once = World
        /\ \A k \in Calls :
               /\ Cardinality(StopCloseCalls(twice.sockets[k])) <= 1
               /\ \A i \in StopCloseCalls(twice.sockets[k]) :
                      twice.sockets[k].closeCalls[i].code = 1000

\* C13's case: stopTranscription called again right after the call that
\* stopped a recording session and closed its socket.
C13_Witness ==
    /\ lastEvent.kind = "stop"
    /\ lastEvent.repeat
    /\ ~svc.isRecording
    /\ \E k \in Calls :
           /\ sockets[k].readyState = "CLOSING"
           /\ sockets[k].closeCalls = << [by |-> "stop", code |-> 1000] >>

\* C14: the transcript callback is never invoked for a message of a socket
\* that stopTranscription has closed.
C14_NoCallbackAfterStop ==
    \A i \in 1..Len(delivered) : ~delivered[i].afterStop

\* C15: once stopTranscription has been called, and until startTranscription
\* is called again, the service does not record and no socket is open.
C15_StopIsFinal ==
    stopRequested =>
        /\ ~svc.isRecording
        /\ \A k \in Calls : sockets[k].readyState # "OPEN"

\* C16: a connect attempt whose socket has closed has settled; with the
\* timeout, no attempt stays pending for ever.
C16_ClosedAttemptHasSettled ==
    \A k \in Calls :
        sockets[k].readyState = "CLOSED" => calls[k].promise # "pending"

RECURSIVE SentOnSockets(_)
SentOnSockets(k) == IF k = 0 THEN 0 ELSE sockets[k].sent + SentOnSockets(k - 1)

RECURSIVE SentOfChunks(_)
SentOfChunks(log) ==
    IF log = <<>> THEN 0 ELSE Head(log).sent + SentOfChunks(Tail(log))

\* C17: a chunk is sent only if, when it is produced, the socket is open and
\* the service records; every other chunk is dropped, and nothing is sent
\* that was not sent when it was produced.
C17_ChunksSentOnlyWhenReady ==
    /\ \A i \in 1..Len(chunkLog) :
           chunkLog[i].sent > 0 => chunkLog[i].open /\ chunkLog[i].recording
    /\ SentOnSockets(MaxStarts + 1) = SentOfChunks(chunkLog)

\* C17's case: a chunk sent on the open socket of a recording session, and the
\* next one dropped because the socket had closed.
C17_Witness ==
    /\ chunkLog = << [open |-> TRUE, recording |-> TRUE, sent |-> 1],
                     [open |-> FALSE, recording |-> TRUE, sent |-> 0] >>
    /\ SentOnSockets(MaxStarts + 1) = 1

\* C32: once a startTranscription call has failed after its socket had
\* opened, the service holds no open socket and no transcript callback, and
\* does not record.
C32_FailedStartLeavesNothing ==
    \A k \in Calls :
        (calls[k].pc = "failed" /\ calls[k].promise = "resolved")
            => /\ svc.transcriptCallback = "null"
               /\ ~svc.isRecording
               /\ sockets[k].readyState # "OPEN"

\* C33: at most one socket of the service is connecting or open.
C33_OneLiveSocket ==
    Cardinality({k \in Calls : sockets[k].readyState \in {"CONNECTING", "OPEN"}}) <= 1

\* C34: when the socket of an earlier, stopped session has closed after a new
\* session started, the service that records on the new session's open socket
\* still references it.
C34_StaleCloseLeavesNewSession ==
    \A j, k \in Calls :
        (/\ j < k
         /\ StoppedSocket(sockets[j]) /\ sockets[j].readyState = "CLOSED"
         /\ calls[k].pc = "done" /\ sockets[k].readyState = "OPEN"
         /\ svc.isRecording /\ ~stopRequested)
            => svc.ws = k

-----------------------------------------------------------------------------
(* Claims about the messages of the streaming client (SpecFrames) *)

\* C26: a TurnInfo message is delivered as final exactly when its event is
\* EndOfTurn, or its event is Update and its end_of_turn_confidence is greater
\* than 0.5 (an absent confidence is not greater); a Results message is
\* delivered as final exactly when its is_final is true.
C26_FinalityOfMessages ==
    \A i \in 1..Len(delivered) :
        LET f == delivered[i].frame
            isFinal == delivered[i].message.isFinal
        IN  /\ f.type = "TurnInfo" =>
                 (isFinal <=> \/ f.event = "EndOfTurn"
                              \/ /\ f.event = "Update"
                                 /\ f.confidence # -1
                                 /\ f.confidence > 50)
            /\ f.type = "Results" => (isFinal <=> f.is_final = "true")

\* An Update at confidence 0.5 has been delivered as interim and an Update at
\* 0.51 as final.
C26_Witness ==
    /\ Len(delivered) = 2
    /\ delivered[1].frame.event = "Update" /\ delivered[1].frame.confidence = 50
    /\ ~delivered[1].message.isFinal
    /\ delivered[2].frame.event = "Update" /\ delivered[2].frame.confidence = 51
    /\ delivered[2].message.isFinal

\* The messages the service is to ignore: binary ones, texts that are no JSON
\* object, JSON objects of a type other than TurnInfo and Results (Connected
\* among them).
IgnoredFrames ==
    {f \in SessionFrames : \/ f.wire # "string"
                           \/ ~f.json
                           \/ f.type \notin {"TurnInfo", "Results"}}

\* C28: a binary message, a text that is no JSON, a JSON message of an
\* unrecognized type and a Connected message invoke no callback and change
\* nothing of the session (socket, isRecording, callback): it keeps streaming.
C28_IgnoredFramesChangeNothing ==
    [][\A k \in Calls, f \in IgnoredFrames :
          SocketMessage(k, f, FALSE) =>
              /\ delivered' = delivered
              /\ transcript' = transcript
              /\ svc' = svc
              /\ sockets' = sockets
              /\ isRecording' = isRecording]_vars

\* A streaming session has received two messages, one of which it ignored and
\* one of which it delivered, and is still streaming.
C28_Witness ==
    /\ svc.isRecording /\ isRecording
    /\ svc.transcriptCallback # "null"
    /\ svc.ws # NoSocket /\ sockets[svc.ws].readyState = "OPEN"
    /\ nMessages = 2
    /\ Len(delivered) = 1
    /\ ~stopRequested

-----------------------------------------------------------------------------
(* Claims about file transcription *)

\* C35: a transcribeFile call with a callback leaves the callback of a live
\* session in place: every fragment of a session is delivered to the callback
\* given to startTranscription, and once the file call has completed the
\* service holds no callback it did not hold before the call.
C35_FileCallKeepsSessionCallback ==
    /\ \A i \in 1..Len(delivered) : delivered[i].to = "hook"
    /\ fileCall.pc \in {"done", "failed"} /\ svc.transcriptCallback = "file"
           => fileCall.before = "file"

\* C39: a request that reached the upstream connection has at most one
\* response on the wire, and has one once the upstream socket has closed or
\* the 60 s timer has fired, whatever the order of decoder error, upstream
\* error, upstream close and timer.
C39_ExactlyOneResponse ==
    job.pc = "upstream"
        => /\ Len(res.sent) <= 1
           /\ (fileWs.readyState = "CLOSED" \/ ~job.timeout) => Len(res.sent) = 1

\* The decoder failed, the upstream socket failed and closed and the timer
\* fired, and the request has one response.
C39_Witness ==
    /\ job.pc = "upstream"
    /\ ffmpeg.failed
    /\ fileWs.closedBy = "error" /\ fileWs.readyState = "CLOSED"
    /\ ~job.timeout
    /\ Len(res.sent) = 1

\* C40: a response with isFinal true carries the text of a final fragment.
C40_FinalAnswerCarriesFinalText ==
    \A i \in 1..Len(res.sent) :
        res.sent[i].status = 200 /\ res.sent[i].isFinal
            => \E k \in 1..Len(fileLog) :
                   /\ fileLog[k] # <<>>
                   /\ fileLog[k][1].isFinal
                   /\ fileLog[k][1].transcript = res.sent[i].transcript

====
